---- MODULE Spec2Model ----
(***************************************************************************)
(* A model of the Schema-Generator: the Table/Column data model            *)
(* (table.py), the per-table script rendering (schema_generator.py,        *)
(* sql_script.py), the loader-package procedure generator (sql_script.py)  *)
(* and the DDL-reversal scanner (clean_script.py).                         *)
(*                                                                         *)
(* Several specifications share the module; each one drives one part of    *)
(* the program and leaves the variables of the other parts untouched:      *)
(*   SpecTable   the Table API: addColumn, cleanCompoundIndex,             *)
(*               genAuditColumns, genHistoryTable                          *)
(*   SpecRender  processTable / processColumn on one table                 *)
(*   SpecLoader  addToLoaderPackage on a parent chain                      *)
(*   SpecClean   writeTableScript -> formatForParsing -> parseSqlCreates   *)
(*   Spec        main(): load rows, derive history tables, worker pool     *)
(***************************************************************************)
EXTENDS Integers, Sequences, FiniteSets, TLC

VARIABLES
    tbl,        \* the Table object under construction / in use
    hist,       \* the Table returned by genHistoryTable, or None
    tpc,        \* "build" while rows are added, then "api", "rendered" or "aborted"
    raised,     \* TRUE when the last cleanCompoundIndex call raised RuntimeError
    cleanCalls, \* number of direct cleanCompoundIndex calls made
    auditCalls, \* number of direct genAuditColumns calls made
    art,        \* the artifacts processTable has written, in order
    lastIdx,    \* artifacts of the last direct writeIndexScript call
    chain,      \* loader parent chain: tables from child to last ancestor
    loader,     \* loader_package_schema: schema -> [header, body]
    lpc,        \* "input", "done" or "failed" (loader generation)
    lpkg,       \* writeLoaderPackage: [called, schemas returned, files written]
    src,        \* the table handed to writeTableScript (scanner round trip)
    script,     \* text of the generated script file
    drops,      \* drop lines returned by the scanner
    packages,   \* clean_script.packages: package names already recorded
    cpc,        \* "input", "written", "parsed"
    tokens,     \* the words of a script file handed to the scanners
    outdir,     \* the output directory: directory name -> its files, in scandir order
    scanned,    \* files of the current directory genCleanScript has handled
    csvfile,    \* the rows csv.reader yields for the schema file, each a tuple of cells
    rd,         \* number of rows of csvfile the loop of csvRead has handled
    firstrow,   \* csvRead's local firstrow
    rpc,        \* csvRead: "input", "reading", "done" or "raised"
    sname,         \* a schema name, as it stands in the schema file
    addGrants,     \* schema_generator.addGrants: table grants created
    addGrantsExec, \* schema_generator.addGrantsExec: execute grants created
    npc,           \* "input" or "derived" (names derived from sname)
    comments,      \* sql_script.comments: the comment accumulator
    commentsFile,  \* the lines of COMMENTS.sql
    flushes,       \* number of writeComments calls made
    epc,           \* main after the pool: "run", "comments" or "grants"
    todo,       \* rows read from the schema file, in file order
    tables,     \* the table registry: sequence of [key, table], insertion order
    holdTables, \* deep copy of the registry taken before history derivation
    mainCount,  \* main's running table number (its local tableCount)
    mpc,        \* main's position: "load", "history", "start", "pool", "done", "crashed"
    nextRow,    \* index of the next row of todo / next key of holdTables
    usePackage, \* config history-tables/use-procedures
    poolSize,   \* the value of threads (os.cpu_count() ^ 2) on this machine
    wpc,        \* per submitted task: position inside processTable
    wlocal,     \* per task: the local variable `history` of saveHistoryProcedure
    taken,      \* number of submitted tasks a pool thread has picked up
    histPkg,    \* history_package_schema: [map: schema -> object, objs: the dicts]
    generated   \* procedures the workers have generated: set of [schema, proc]

tableVars  == <<tbl, hist, tpc, raised, cleanCalls, auditCalls, art, lastIdx>>
loaderVars == <<chain, loader, lpc, lpkg>>
cleanVars  == <<src, script, drops, packages, cpc, tokens, outdir, scanned>>
runVars    == <<todo, tables, holdTables, mainCount, mpc, nextRow, usePackage,
                poolSize, wpc, wlocal, taken, histPkg, generated>>
readVars   == <<csvfile, rd, firstrow, rpc>>
grantVars  == <<sname, addGrants, addGrantsExec, npc>>
flushVars  == <<comments, commentsFile, flushes, epc>>
vars       == <<tableVars, loaderVars, cleanVars, runVars, readVars, grantVars, flushVars>>

None == "<None>"

(***************************************************************************)
(* Bounds of the model.                                                    *)
(***************************************************************************)
MaxCols       == 2   \* rows loaded into one table (SpecTable, SpecRender)
MaxCleanCalls == 2   \* direct cleanCompoundIndex calls
MaxAuditCalls == 2   \* direct genAuditColumns calls
MaxCleanCols  == 2   \* columns of the table written for the scanner (SpecClean)
MaxLoaderCols == 2   \* columns of the child table of a loader chain (SpecLoader)
MaxChain      == 3   \* tables of a loader chain: child, parent, grandparent
MaxRows       == 2   \* rows of the schema file of a run (Spec)
MaxTokens     == 5   \* words of a file handed to the scanners (SpecScan)

(***************************************************************************)
(* Python strings.  A string is a TLA+ string; Char(s, i) is s[i-1].       *)
(***************************************************************************)
Char(s, i) == SubSeq(s, i, i)

LowerCase == "abcdefghijklmnopqrstuvwxyz"
UpperCase == "ABCDEFGHIJKLMNOPQRSTUVWXYZ"
Digits    == "0123456789"

\* The upper-case letter of each lower-case letter.
UpperOf ==
    [c \in {Char(LowerCase, k) : k \in 1..26} |->
        Char(UpperCase, CHOOSE k \in 1..26 : Char(LowerCase, k) = c)]

UpperAt(s, i) ==
    LET c == Char(s, i)
    IN  IF c \in DOMAIN UpperOf THEN UpperOf[c] ELSE c

\* The upper-cased characters lo..hi of s, in order.
RECURSIVE UpperRange(_, _, _)
UpperRange(s, lo, hi) ==
    IF lo > hi THEN ""
    ELSE IF lo = hi THEN UpperAt(s, lo)
    ELSE LET mid == (lo + hi) \div 2
         IN  UpperRange(s, lo, mid) \o UpperRange(s, mid + 1, hi)

\* str.upper()
Upper(s) == UpperRange(s, 1, Len(s))

\* The lower-case letter of each upper-case letter.
LowerOf ==
    [c \in {Char(UpperCase, k) : k \in 1..26} |->
        Char(LowerCase, CHOOSE k \in 1..26 : Char(UpperCase, k) = c)]

LowerAt(s, i) ==
    LET c == Char(s, i)
    IN  IF c \in DOMAIN LowerOf THEN LowerOf[c] ELSE c

RECURSIVE LowerRange(_, _, _)
LowerRange(s, lo, hi) ==
    IF lo > hi THEN ""
    ELSE IF lo = hi THEN LowerAt(s, lo)
    ELSE LET mid == (lo + hi) \div 2
         IN  LowerRange(s, lo, mid) \o LowerRange(s, mid + 1, hi)

\* str.lower()
Lower(s) == LowerRange(s, 1, Len(s))

\* str.isdigit()
IsDigit(s) ==
    /\ Len(s) >= 1
    /\ \A i \in 1..Len(s) : \E k \in 1..10 : Char(Digits, k) = Char(s, i)

\* int(s) for a string of digits
RECURSIVE ToInt(_)
ToInt(s) ==
    IF Len(s) = 0 THEN 0
    ELSE 10 * ToInt(SubSeq(s, 1, Len(s) - 1))
           + (CHOOSE k \in 1..10 : Char(Digits, k) = Char(s, Len(s))) - 1

\* First character and remainder of an index tag (i[0], i[1:]).
TagHead(t) == SubSeq(t, 1, 1)

TagTail(t) == SubSeq(t, 2, Len(t))

\* s.split(sep)[0]: s up to the first occurrence of sep
SplitFirst(s, sep) ==
    LET hits == {i \in 1..(Len(s) - Len(sep) + 1) : SubSeq(s, i, i + Len(sep) - 1) = sep}
    IN  IF hits = {} THEN s
        ELSE SubSeq(s, 1, (CHOOSE i \in hits : \A j \in hits : i <= j) - 1)

\* schema.upper().split('_OWNER')[0]
SplitOwner(s) == SplitFirst(s, "_OWNER")

(***************************************************************************)
(* Column (table.py)                                                       *)
(***************************************************************************)
default_kw == {"SYSDATE", "USER", "SYSTIMESTAMP"}

\* default_schema_row: the fields of a schema row the model keeps.  The
\* index cell is held as the list its split(',') yields ('' gives <<>>).
default_schema_row ==
    [schema |-> "", table |-> "", field |-> "", type |-> "", size |-> "",
     units |-> "", not_null |-> "", primary_key |-> "", default |-> "",
     index |-> <<>>, sequence_start |-> "", pop_by_trigger |-> "",
     virtual |-> "", virtual_expr |-> "", check_constraint |-> "",
     fk_to_table |-> "", fk_to_field |-> "", column_comment |-> "",
     invisible |-> "", lob_deduplication |-> "", lob_compression |-> "",
     lob_caching |-> "", lob_logging |-> ""]

\* config['lob-defaults']
lob_defaults ==
    [deduplication |-> "Y", compression |-> "MEDIUM", caching |-> "N", logging |-> "Y"]

\* A Y/N cell of a LOB column, falling back to the configured default.
LobFlag(cell, dflt) ==
    IF Upper(cell) = "Y" THEN TRUE
    ELSE IF Upper(cell) = "N" THEN FALSE
    ELSE Upper(dflt) = "Y"

\* The size attribute Column.load keeps.
LoadSize(type, size) ==
    IF IsDigit(size) /\ type \in {"VARCHAR2", "CHAR"}
    THEN IF ToInt(size) < 1 THEN ""
         ELSE IF ToInt(size) > 4000 THEN "4000"
         ELSE size
    ELSE IF type = "NUMBER" /\ size # "" THEN size
    ELSE ""

\* Column.load(csvrow) applied to a fresh Column().
load(csvrow) ==
    LET type   == Upper(csvrow.type)
        tags   == [i \in 1..Len(csvrow.index) |-> Upper(csvrow.index[i])]
        isNum  == IsDigit(csvrow.sequence_start)
        isName == ~isNum /\ csvrow.sequence_start # ""
        isVirt == /\ type \in {"DATE", "VARCHAR2", "CHAR", "NUMBER", "TIMESTAMP"}
                  /\ Upper(csvrow.virtual) = "Y"
                  /\ csvrow.virtual_expr # ""
        hasFk  == csvrow.fk_to_table # "" /\ csvrow.fk_to_field # ""
        isLob  == type \in {"BLOB", "CLOB"}
        levels == {"N", "LOW", "MEDIUM", "HIGH"}
    IN  [origrow       |-> csvrow,
         field         |-> Upper(csvrow.field),
         type          |-> type,
         size          |-> LoadSize(type, csvrow.size),
         units         |-> IF Upper(csvrow.units) \in {"BYTE", "CHAR"}
                           THEN Upper(csvrow.units) ELSE "",
         invisible     |-> Upper(csvrow.invisible) = "Y",
         lob_dedup     |-> isLob /\ LobFlag(csvrow.lob_deduplication,
                                             lob_defaults.deduplication),
         lob_compress  |-> IF ~isLob THEN None
                           ELSE IF Upper(csvrow.lob_compression) \in levels
                                THEN Upper(csvrow.lob_compression)
                           ELSE IF Upper(lob_defaults.compression) \in levels
                                THEN Upper(lob_defaults.compression)
                           ELSE None,
         lob_cache     |-> isLob /\ LobFlag(csvrow.lob_caching, lob_defaults.caching),
         lob_logging   |-> isLob /\ LobFlag(csvrow.lob_logging, lob_defaults.logging),
         notnull       |-> Upper(csvrow.not_null) = "Y",
         primarykey    |-> Upper(csvrow.primary_key) = "Y",
         default       |-> IF csvrow.default = "" THEN None
                           ELSE IF type \in {"VARCHAR2", "CHAR"}
                                   /\ Upper(csvrow.default) \notin default_kw
                                THEN "'" \o csvrow.default \o "'"
                                ELSE csvrow.default,
         indexed       |-> \E i \in 1..Len(tags) : tags[i] \in {"Y", "U"},
         unique        |-> \E i \in 1..Len(tags) : tags[i] = "U",
         indexvalue    |-> SelectSeq(tags, LAMBDA t : /\ t \notin {"Y", "U"}
                                                      /\ TagHead(t) \in {"Y", "U"}
                                                      /\ IsDigit(TagTail(t))),
         sequenced     |-> isNum \/ isName,
         sequencestart |-> IF isNum THEN ToInt(csvrow.sequence_start) ELSE 1,
         sequencetouse |-> IF isName THEN csvrow.sequence_start ELSE None,
         triggered     |-> (isNum \/ isName) /\ Upper(csvrow.pop_by_trigger) = "Y",
         virtual       |-> isVirt,
         virtualexpr   |-> IF isVirt THEN csvrow.virtual_expr ELSE None,
         checkconstraint |-> IF csvrow.check_constraint # ""
                             THEN csvrow.check_constraint ELSE None,
         fksourcetable |-> IF hasFk THEN csvrow.fk_to_table ELSE None,
         fksourcefield |-> IF hasFk THEN csvrow.fk_to_field ELSE None,
         comment       |-> IF csvrow.column_comment # ""
                           THEN csvrow.column_comment ELSE None]

\* Column.duplicateColumn(): a new Column loaded from the original row.
duplicateColumn(col) == load(col.origrow)

(***************************************************************************)
(* Table (table.py).  primarykeys and the members of compindex are         *)
(* references to Column objects of the table: they are held as positions   *)
(* in columns.  compindex is an insertion-ordered dict: a sequence of      *)
(* [key, cols] entries.                                                    *)
(***************************************************************************)
Table(schema, tablename, genAudit, genHistory, comment, tableNumber, historyTable, histSourceTableName) ==
    [schema       |-> schema,
     name         |-> tablename,
     columns      |-> <<>>,
     comment      |-> comment,
     tableNumber  |-> tableNumber,
     tablespace   |-> SplitOwner(Upper(schema)),
     sourcetable  |-> histSourceTableName,
     primarykeys  |-> <<>>,
     compindex    |-> <<>>,
     needsaudit   |-> Upper(genAudit) = "Y",
     needshistory |-> Upper(genHistory) = "Y",
     ishistory    |-> historyTable,
     indexcount   |-> 1,
     fkcount      |-> 1]

HasKey(ci, key) == \E i \in 1..Len(ci) : ci[i].key = key

\* One pass of the `for index in col.indexvalue` loop of addColumn.
RECURSIVE RegisterClusters(_, _, _)
RegisterClusters(ci, tags, pos) ==
    IF tags = <<>> THEN ci
    ELSE LET key == Head(tags)
             nxt == IF HasKey(ci, key)
                    THEN [i \in 1..Len(ci) |->
                            IF ci[i].key = key
                            THEN [ci[i] EXCEPT !.cols = Append(@, pos)]
                            ELSE ci[i]]
                    ELSE Append(ci, [key |-> key, cols |-> <<pos>>])
         IN  RegisterClusters(nxt, Tail(tags), pos)

addColumn(t, col) ==
    LET pos == Len(t.columns) + 1
    IN  [t EXCEPT
           !.primarykeys = IF col.primarykey THEN Append(@, pos) ELSE @,
           !.compindex   = RegisterClusters(@, col.indexvalue, pos),
           !.columns     = Append(@, col)]

\* A test that keys on cluster-tag membership of a primary-key column
\* instead of the number of primary-key columns.
hasCompoundPKByCluster(t) == \E i \in 1..Len(t.primarykeys) : \E k \in 1..Len(t.compindex) : Len(t.compindex[k].cols) >= 2 /\ \E j \in 1..Len(t.compindex[k].cols) : t.compindex[k].cols[j] = t.primarykeys[i]

hasCompoundPK(t) == Len(t.primarykeys) > 1

getPKFields(t) == [i \in 1..Len(t.primarykeys) |-> t.columns[t.primarykeys[i]].field]

hasCompoundIndex(t) == t.compindex # <<>>

isCompoundIndexUnique(t, key) ==
    t.compindex # <<>> /\ HasKey(t.compindex, key) /\ TagHead(key) = "U"

\* Positions of the clusters with fewer than 2 members.
ShortClusters(ci) == {i \in 1..Len(ci) : Len(ci[i].cols) < 2}

RemoveAt(s, k) == [i \in 1..(Len(s) - 1) |-> IF i < k THEN s[i] ELSE s[i + 1]]

\* Table.cleanCompoundIndex(): the loop pops while it iterates the live
\* key view of the dict.  The keys before the first short cluster are
\* visited and kept; the first short cluster is popped; the iterator's next
\* step then finds the dict's size changed and raises RuntimeError (also
\* when the popped key was the last one).  Result: the map left behind and
\* whether the call raised.
cleanCompoundIndex(t) ==
    IF ShortClusters(t.compindex) = {}
    THEN [table |-> t, raised |-> FALSE]
    ELSE LET k == CHOOSE i \in ShortClusters(t.compindex) :
                      \A j \in ShortClusters(t.compindex) : i <= j
         IN  [table  |-> [t EXCEPT !.compindex = RemoveAt(@, k)],
              raised |-> TRUE]

\* spawnAuditColumns(schema, tablename): U_NAME, U_DATE
spawnAuditColumns(schema, tablename) ==
    << load([default_schema_row EXCEPT
               !.schema = schema, !.table = tablename, !.field = "U_NAME",
               !.type = "VARCHAR2", !.size = "250", !.units = "CHAR",
               !.not_null = "Y", !.default = "USER",
               !.column_comment = "User Name for audit logging purposes"]),
       load([default_schema_row EXCEPT
               !.schema = schema, !.table = tablename, !.field = "U_DATE",
               !.type = "DATE", !.not_null = "Y", !.default = "SYSDATE",
               !.column_comment = "Date / Time for audit logging purposes"]) >>

\* spawnHistoryColumns(schema, tablename): HIST_ID, CHANGE, CHANGE_DATE, CHANGE_USER
spawnHistoryColumns(schema, tablename) ==
    << load([default_schema_row EXCEPT
               !.schema = schema, !.table = tablename, !.field = "HIST_ID",
               !.type = "NUMBER", !.not_null = "Y", !.primary_key = "Y",
               !.sequence_start = "1", !.pop_by_trigger = "Y",
               !.column_comment = "Unique ID for History record"]),
       load([default_schema_row EXCEPT
               !.schema = schema, !.table = tablename, !.field = "CHANGE",
               !.type = "VARCHAR2", !.size = "10", !.units = "CHAR",
               !.not_null = "Y",
               !.column_comment = "Type of change performed"]),
       load([default_schema_row EXCEPT
               !.schema = schema, !.table = tablename, !.field = "CHANGE_DATE",
               !.type = "DATE", !.not_null = "Y", !.default = "SYSDATE",
               !.column_comment = "Time of change performed"]),
       load([default_schema_row EXCEPT
               !.schema = schema, !.table = tablename, !.field = "CHANGE_USER",
               !.type = "VARCHAR2", !.size = "50", !.units = "CHAR",
               !.not_null = "Y", !.default = "USER",
               !.column_comment = "DB USER that performed change"]) >>

RECURSIVE AddAll(_, _)
AddAll(t, cols) ==
    IF cols = <<>> THEN t ELSE AddAll(addColumn(t, Head(cols)), Tail(cols))

\* Table.genAuditColumns()
genAuditColumns(t) ==
    IF t.needsaudit
    THEN AddAll(t, spawnAuditColumns(t.schema, t.name))
    ELSE t

\* The mutant of RelaxColumn that forgets the primary-key and not-null resets.
RelaxColumnKeepsKey(col) ==
    [col EXCEPT !.default = None,
                !.indexed = FALSE, !.indexvalue = <<>>, !.unique = FALSE,
                !.sequenced = FALSE, !.sequencestart = 1, !.triggered = FALSE,
                !.fksourcetable = None, !.fksourcefield = None,
                !.virtual = FALSE, !.virtualexpr = None]

\* The attribute resets addColumnsForHistory applies to a duplicated column.
RelaxColumn(col) ==
    [col EXCEPT !.notnull = FALSE, !.primarykey = FALSE, !.default = None,
                !.indexed = FALSE, !.indexvalue = <<>>, !.unique = FALSE,
                !.sequenced = FALSE, !.sequencestart = 1, !.triggered = FALSE,
                !.fksourcetable = None, !.fksourcefield = None,
                !.virtual = FALSE, !.virtualexpr = None]

\* Table.addColumnsForHistory(cols)
addColumnsForHistory(h, cols) ==
    AddAll(h, [i \in 1..Len(cols) |-> RelaxColumn(duplicateColumn(cols[i]))])

\* Python's None where a Table is expected.
NoTable == [name |-> None]

\* The mutant of genHistoryTable whose history table inherits the audit flag.
genHistoryTableKeepsAudit(t, tableNum) ==
    IF t.needshistory
    THEN addColumnsForHistory(
             AddAll(Table(t.schema, "H_" \o t.name,
                          IF t.needsaudit THEN "Y" ELSE "N", "N",
                          "History table for " \o t.name, tableNum, TRUE, t.name),
                    spawnHistoryColumns(t.schema, t.name)),
             t.columns)
    ELSE NoTable

\* Table.genHistoryTable(tableNum): a Table, or None.
genHistoryTable(t, tableNum) ==
    IF t.needshistory
    THEN addColumnsForHistory(
             AddAll(Table(t.schema, "H_" \o t.name, "N", "N",
                          "History table for " \o t.name, tableNum, TRUE, t.name),
                    spawnHistoryColumns(t.schema, t.name)),
             t.columns)
    ELSE NoTable

(***************************************************************************)
(* Script generator (sql_script.py): index and constraint scripts.  A      *)
(* written file is an artifact record: the category folder, the file name  *)
(* (without .sql), the statement kind, the identifier it creates, the      *)
(* table it is on, the fields it lists and the USING INDEX / REFERENCES    *)
(* target.                                                                 *)
(***************************************************************************)
Artifact(dir, file, stmt, name, on, fields, using) ==
    [dir |-> dir, file |-> file, stmt |-> stmt, name |-> name, on |-> on,
     fields |-> fields, using |-> using]

\* The mutant of Pad3 that formats the number without zero padding.
Pad3Unpadded(n) == ToString(n)

\* f'{tableCount:03}'
Pad3(n) ==
    IF n < 10 THEN "00" \o ToString(n)
    ELSE IF n < 100 THEN "0" \o ToString(n)
    ELSE ToString(n)

\* The mutant of NumberSuffix that never appends the number.
NumberSuffixDropped(count) == ""

\* "If count > 1, append number to generate unique name"
NumberSuffix(count) == IF count = 1 THEN "" ELSE ToString(count)

\* The mutant of IndexCreate that honours a non-unique primary-key request.
IndexCreateUnforced(unique, primaryKey) ==
    IF unique /\ primaryKey THEN [create |-> "CREATE UNIQUE INDEX", key_type |-> "PK"]
    ELSE IF unique THEN [create |-> "CREATE UNIQUE INDEX", key_type |-> "UI"]
    ELSE IF primaryKey THEN [create |-> "CREATE INDEX", key_type |-> "PK"]
    ELSE [create |-> "CREATE INDEX", key_type |-> "NI"]

\* "Determining how to begin script" of writeIndexScript / writeCompoundIndexScript
IndexCreate(unique, primaryKey) ==
    IF unique /\ primaryKey THEN [create |-> "CREATE UNIQUE INDEX", key_type |-> "PK"]
    ELSE IF unique THEN [create |-> "CREATE UNIQUE INDEX", key_type |-> "UI"]
    ELSE IF primaryKey THEN [create |-> "CREATE UNIQUE INDEX", key_type |-> "PK"]
    ELSE [create |-> "CREATE INDEX", key_type |-> "NI"]

writePKConstraintScript(schema, tablename, index, field, tableCount) ==
    Artifact("CONSTRAINTS", Pad3(tableCount) \o "_1_" \o index, "PRIMARY KEY",
             index, schema \o "." \o tablename, <<field>>, schema \o "." \o index)

writeUniqueConstraintScript(schema, tablename, index, field, tableCount) ==
    Artifact("CONSTRAINTS", Pad3(tableCount) \o "_2_" \o index, "UNIQUE",
             index, schema \o "." \o tablename, <<field>>, None)

writeCompoundPKConstraintScript(schema, tablename, index, fields, tableCount) ==
    Artifact("CONSTRAINTS", Pad3(tableCount) \o "_1_" \o index, "PRIMARY KEY",
             index, schema \o "." \o tablename, fields, schema \o "." \o index)

writeUniqueCompoundConstraintScript(schema, tablename, index, fields, tableCount) ==
    Artifact("CONSTRAINTS", Pad3(tableCount) \o "_2_" \o index, "UNIQUE",
             index, schema \o "." \o tablename, fields, None)

\* writeIndexScript: the files it writes, in order.
writeIndexScript(schema, tablename, tablespace, field, tableCount, count, primaryKey, unique) ==
    LET k      == IndexCreate(unique, primaryKey)
        number == NumberSuffix(count)
        index  == tablename \o "_" \o k.key_type \o number
        idx    == Artifact("INDEXES", Pad3(tableCount) \o "_" \o index, k.create,
                           schema \o "." \o index, schema \o "." \o tablename,
                           <<field>>, None)
    IN  IF primaryKey
        THEN <<idx, writePKConstraintScript(schema, tablename, index, field, tableCount)>>
        ELSE IF unique
        THEN <<idx, writeUniqueConstraintScript(schema, tablename, index, field, tableCount)>>
        ELSE <<idx>>

\* writeCompoundIndexScript: the files it writes, in order.
writeCompoundIndexScript(schema, tablename, tablespace, fields, tableCount, count, primaryKey, unique) ==
    LET k      == IndexCreate(unique, primaryKey)
        number == NumberSuffix(count)
        index  == tablename \o "_COMPOUND_" \o k.key_type \o number
        idx    == Artifact("INDEXES", Pad3(tableCount) \o "_" \o index, k.create,
                           schema \o "." \o index, schema \o "." \o tablename,
                           fields, None)
    IN  IF primaryKey
        THEN <<idx, writeCompoundPKConstraintScript(schema, tablename, index, fields, tableCount)>>
        ELSE IF unique
        THEN <<idx, writeUniqueCompoundConstraintScript(schema, tablename, index, fields, tableCount)>>
        ELSE <<idx>>

writeFKConstraintScript(schema, sourcetable, sourcefield, boundtable, boundfield, tableCount, count) ==
    LET name == boundtable \o "_" \o boundfield \o "_FK" \o NumberSuffix(count)
    IN  Artifact("REF_CONSTRAINTS", Pad3(tableCount) \o "_3_" \o name, "FOREIGN KEY",
                 name, schema \o "." \o boundtable, <<boundfield>>,
                 schema \o "." \o sourcetable \o " (" \o sourcefield \o ")")

writeSimpleCheckConstraintScript(schema, tablename, field, condition, tableCount) ==
    LET name == tablename \o "_CHECK_" \o field
    IN  Artifact("CONSTRAINTS", Pad3(tableCount) \o "_" \o name, "CHECK",
                 name, schema \o "." \o tablename, <<field>>, None)

writeTriggerScript(schema, tablename, field, sequence) ==
    LET name == tablename \o "_" \o field \o "_TRG"
    IN  Artifact("TRIGGERS", name, "CREATE OR REPLACE TRIGGER",
                 schema \o "." \o name, schema \o "." \o tablename, <<field>>, sequence)

writeSequenceScript(schema, tablename, field, startnum, gentrigger) ==
    LET name == tablename \o "_" \o field \o "_SEQ"
        sq   == Artifact("SEQUENCES", name, "CREATE SEQUENCE", schema \o "." \o name,
                         None, <<field>>, None)
    IN  IF gentrigger
        THEN <<sq, writeTriggerScript(schema, tablename, field, name)>>
        ELSE <<sq>>

writeAuditTrigger(schema, tablename) ==
    Artifact("TRIGGERS", tablename \o "_BIU", "CREATE OR REPLACE TRIGGER",
             schema \o "." \o tablename \o "_BIU", schema \o "." \o tablename,
             <<"U_DATE", "U_NAME">>, None)

\* The three history trigger files (INSERT, UPDATE, DELETE).
writeHistoryTriggers(schema, tablename) ==
    [i \in 1..3 |->
        LET key == <<"INS", "UPD", "DEL">>[i]
            name == tablename \o "_H_" \o key \o "_TRG"
        IN  Artifact("TRIGGERS", name, "CREATE OR REPLACE EDITIONABLE TRIGGER",
                     schema \o "." \o name, schema \o "." \o tablename, <<>>, None)]

\* The CREATE TABLE file: named after the table alone.
TableArtifact(schema, tablename, columns) ==
    Artifact("TABLES", tablename, "CREATE TABLE", schema \o "." \o tablename,
             None, [i \in 1..Len(columns) |-> columns[i].field], None)

(***************************************************************************)
(* processColumn / processTable (schema_generator.py).  The running state  *)
(* of a rendering is [table, art]: the table (its counters move) and the   *)
(* files written so far.                                                   *)
(***************************************************************************)
processColumn(st, column) ==
    LET t   == st.table
        ix  == IF column.primarykey /\ ~hasCompoundPK(t)
               THEN [files |-> writeIndexScript(t.schema, t.name, t.tablespace,
                                                column.field, t.tableNumber, 1,
                                                column.primarykey, TRUE),
                     indexcount |-> t.indexcount]
               ELSE IF column.indexed
               THEN [files |-> writeIndexScript(t.schema, t.name, t.tablespace,
                                                column.field, t.tableNumber,
                                                t.indexcount, FALSE, column.unique),
                     indexcount |-> t.indexcount + 1]
               ELSE [files |-> <<>>, indexcount |-> t.indexcount]
        sq  == IF column.sequenced
               THEN IF column.sequencetouse = None
                    THEN writeSequenceScript(t.schema, t.name, column.field,
                                             column.sequencestart, column.triggered)
                    ELSE IF column.triggered
                    THEN <<writeTriggerScript(t.schema, t.name, column.field,
                                              column.sequencetouse)>>
                    ELSE <<>>
               ELSE <<>>
        fk  == IF column.fksourcetable # None
               THEN <<writeFKConstraintScript(t.schema, column.fksourcetable,
                                              column.fksourcefield, t.name,
                                              column.field, t.tableNumber, t.fkcount)>>
               ELSE <<>>
        ck  == IF column.checkconstraint # None
               THEN <<writeSimpleCheckConstraintScript(t.schema, t.name, column.field,
                                                       column.checkconstraint,
                                                       t.tableNumber)>>
               ELSE <<>>
    IN  [table |-> [t EXCEPT !.indexcount = ix.indexcount,
                             !.fkcount = IF column.fksourcetable # None
                                         THEN @ + 1 ELSE @],
         art   |-> st.art \o ix.files \o sq \o fk \o ck]

RECURSIVE ProcessColumns(_, _)
ProcessColumns(st, cols) ==
    IF cols = <<>> THEN st
    ELSE ProcessColumns(processColumn(st, Head(cols)), Tail(cols))

\* Table.getIndexFields() after cleaning: key -> field names, in dict order.
getIndexFields(t) ==
    [i \in 1..Len(t.compindex) |->
        [key    |-> t.compindex[i].key,
         fields |-> [j \in 1..Len(t.compindex[i].cols) |->
                        t.columns[t.compindex[i].cols[j]].field]]]

\* The `for key in indexFields.keys()` loop of processTable.
RECURSIVE CompoundIndexLoop(_, _)
CompoundIndexLoop(st, entries) ==
    IF entries = <<>> THEN st
    ELSE LET t == st.table
             e == Head(entries)
         IN  CompoundIndexLoop(
                 [table |-> [t EXCEPT !.indexcount = @ + 1],
                  art   |-> st.art \o writeCompoundIndexScript(
                                t.schema, t.name, t.tablespace, e.fields,
                                t.tableNumber, t.indexcount, FALSE,
                                isCompoundIndexUnique(t, e.key))],
                 Tail(entries))

\* processTable(table) for a table that is not flagged for the loader
\* package; column sorting (config sorting/columns-nullable) is off.  The
\* RuntimeError of cleanCompoundIndex leaves processTable before anything
\* is written.  Result: [table, art, aborted].
processTable(table) ==
    LET cl == cleanCompoundIndex(table)
    IN  IF cl.raised
        THEN [table |-> cl.table, art |-> <<>>, aborted |-> TRUE]
        ELSE
        LET t0 == cl.table
            h  == IF t0.needshistory
                  THEN writeHistoryTriggers(t0.schema, t0.name) ELSE <<>>
            t1 == IF t0.needsaudit THEN genAuditColumns(t0) ELSE t0
            a  == IF t0.needsaudit
                  THEN <<writeAuditTrigger(t0.schema, t0.name)>> ELSE <<>>
            pk == IF hasCompoundPK(t1)
                  THEN writeCompoundIndexScript(t1.schema, t1.name, t1.tablespace,
                                                getPKFields(t1), t1.tableNumber,
                                                1, TRUE, TRUE)
                  ELSE <<>>
            s1 == [table |-> t1, art |-> h \o a \o pk]
            s2 == IF hasCompoundIndex(t1)
                  THEN CompoundIndexLoop(s1, getIndexFields(t1)) ELSE s1
            s3 == [s2 EXCEPT !.art = @ \o <<TableArtifact(t1.schema, t1.name,
                                                          t1.columns)>>]
            s4 == ProcessColumns(s3, t1.columns)
        IN  [table |-> s4.table, art |-> s4.art, aborted |-> FALSE]

(***************************************************************************)
(* Inputs of the single-table specifications.                              *)
(***************************************************************************)
FieldNames == <<"F1", "F2", "F3", "F4", "F5", "F6">>

Row(type, pk, nn, dflt, idx, sq, trg, fkt) ==
    [default_schema_row EXCEPT
        !.type = type, !.primary_key = pk, !.not_null = nn, !.default = dflt,
        !.index = idx, !.sequence_start = sq, !.pop_by_trigger = trg,
        !.fk_to_table = fkt, !.fk_to_field = IF fkt = "" THEN "" ELSE "ID"]

\* The kinds of schema row a table is built from.
RowPool ==
    { Row("VARCHAR2", "", "Y", "A", <<>>, "", "", ""),
      Row("number", "Y", "Y", "", <<>>, "1", "Y", ""),
      Row("NUMBER", "y", "Y", "0", <<"U", "U1">>, "", "", "P"),
      Row("NUMBER", "", "", "", <<"Y">>, "SEQ_X", "Y", ""),
      Row("NUMBER", "", "Y", "0", <<"u1">>, "", "", ""),
      Row("DATE", "", "", "", <<"u", "Y1", "YA">>, "", "", "P"),
      Row("NUMBER", "", "", "", <<"Y", "y2">>, "", "", "P") }

IdleTable ==
    /\ tbl = NoTable /\ hist = NoTable /\ tpc = "idle" /\ raised = FALSE
    /\ cleanCalls = 0 /\ auditCalls = 0 /\ art = <<>> /\ lastIdx = <<>>

NoPackages == [called |-> FALSE, schemas |-> <<>>, files |-> {}]

IdleLoader == chain = <<>> /\ loader = <<>> /\ lpc = "idle" /\ lpkg = NoPackages

IdleClean ==
    /\ src = NoTable /\ script = "" /\ drops = <<>> /\ packages = <<>>
    /\ cpc = "idle" /\ tokens = <<>> /\ outdir = <<>> /\ scanned = 0

IdleRead == csvfile = <<>> /\ rd = 0 /\ firstrow = TRUE /\ rpc = "idle"

IdleGrant == sname = "" /\ addGrants = <<>> /\ addGrantsExec = <<>> /\ npc = "idle"

IdleFlush == comments = <<>> /\ commentsFile = <<>> /\ flushes = 0 /\ epc = "run"

IdleRun ==
    /\ todo = <<>> /\ tables = <<>> /\ holdTables = <<>> /\ mainCount = 1
    /\ mpc = "idle" /\ nextRow = 1 /\ usePackage = FALSE
    /\ poolSize = 0 /\ wpc = <<>> /\ wlocal = <<>> /\ taken = 0
    /\ histPkg = [map |-> <<>>, objs |-> <<>>] /\ generated = {}

(***************************************************************************)
(* SpecTable and SpecRender: one table, built row by row as main() does    *)
(* (Column.load, then Table.addColumn), then used.                         *)
(***************************************************************************)
InitTable ==
    /\ \E a \in {"Y", ""}, h \in {"y", "N"}, n \in {1, 12} :
          tbl = Table("APP_OWNER", "T", a, h, "", n, FALSE, "")
    /\ hist = NoTable /\ tpc = "build" /\ raised = FALSE
    /\ cleanCalls = 0 /\ auditCalls = 0 /\ art = <<>> /\ lastIdx = <<>>
    /\ IdleLoader /\ IdleClean /\ IdleRun /\ IdleRead /\ IdleGrant /\ IdleFlush

\* newcol = Column(); newcol.load(row); tables[schematable].addColumn(newcol)
AddRow ==
    /\ tpc = "build"
    /\ Len(tbl.columns) < MaxCols
    /\ \E r \in RowPool :
          tbl' = addColumn(tbl, load([r EXCEPT
                                        !.schema = tbl.schema, !.table = tbl.name,
                                        !.field = FieldNames[Len(tbl.columns) + 1]]))
    /\ UNCHANGED <<hist, tpc, raised, cleanCalls, auditCalls, art, lastIdx>>
    /\ UNCHANGED <<loaderVars, cleanVars, runVars, readVars, grantVars, flushVars>>

\* table.cleanCompoundIndex()
CallCleanCompoundIndex ==
    /\ tpc \in {"build", "api"}
    /\ Len(tbl.columns) >= 1
    /\ cleanCalls < MaxCleanCalls
    /\ LET r == cleanCompoundIndex(tbl)
       IN  tbl' = r.table /\ raised' = r.raised
    /\ cleanCalls' = cleanCalls + 1
    /\ tpc' = "api"
    /\ UNCHANGED <<hist, auditCalls, art, lastIdx>>
    /\ UNCHANGED <<loaderVars, cleanVars, runVars, readVars, grantVars, flushVars>>

\* table.genAuditColumns()
CallGenAuditColumns ==
    /\ tpc \in {"build", "api"}
    /\ Len(tbl.columns) >= 1
    /\ auditCalls < MaxAuditCalls
    /\ tbl' = genAuditColumns(tbl)
    /\ auditCalls' = auditCalls + 1
    /\ tpc' = "api"
    /\ UNCHANGED <<hist, raised, cleanCalls, art, lastIdx>>
    /\ UNCHANGED <<loaderVars, cleanVars, runVars, readVars, grantVars, flushVars>>

\* hist = table.genHistoryTable(2)
CallGenHistoryTable ==
    /\ tpc \in {"build", "api"}
    /\ Len(tbl.columns) >= 1
    /\ hist' = genHistoryTable(tbl, 2)
    /\ tpc' = "history"
    /\ UNCHANGED <<tbl, raised, cleanCalls, auditCalls, art, lastIdx>>
    /\ UNCHANGED <<loaderVars, cleanVars, runVars, readVars, grantVars, flushVars>>

NextTable ==
    \/ AddRow
    \/ CallCleanCompoundIndex
    \/ CallGenAuditColumns
    \/ CallGenHistoryTable

SpecTable == InitTable /\ [][NextTable]_vars

\* processTable(table), with its processColumn loop
ProcessTable ==
    /\ tpc = "build"
    /\ Len(tbl.columns) >= 1
    /\ \E r \in {processTable(tbl)} :
           /\ tbl' = r.table
           /\ art' = r.art
           /\ raised' = r.aborted
           /\ tpc' = IF r.aborted THEN "aborted" ELSE "rendered"
    /\ UNCHANGED <<hist, cleanCalls, auditCalls, lastIdx>>
    /\ UNCHANGED <<loaderVars, cleanVars, runVars, readVars, grantVars, flushVars>>

\* A direct call of writeIndexScript with any flag combination.
DirectIndexCall ==
    /\ tpc = "build"
    /\ Len(tbl.columns) = 0
    /\ \E count \in 1..2, primaryKey \in BOOLEAN, unique \in BOOLEAN :
          lastIdx' = writeIndexScript(tbl.schema, tbl.name, tbl.tablespace, "F1",
                                      tbl.tableNumber, count, primaryKey, unique)
    /\ tpc' = "direct"
    /\ UNCHANGED <<tbl, hist, raised, cleanCalls, auditCalls, art>>
    /\ UNCHANGED <<loaderVars, cleanVars, runVars, readVars, grantVars, flushVars>>

NextRender ==
    \/ AddRow
    \/ ProcessTable
    \/ DirectIndexCall

SpecRender == InitTable /\ [][NextRender]_vars

(***************************************************************************)
(* Claims on the rendering of keys (SpecRender)                            *)
(***************************************************************************)
Files(a, dir) == {i \in 1..Len(a) : a[i].dir = dir}

\* Index files of the primary-key path: the identifier ends in _PK<n>.
IsPKIndex(f) == f.dir = "INDEXES" /\ \E c \in 1..9 :
                    \/ f.name = tbl.schema \o "." \o tbl.name \o "_PK" \o NumberSuffix(c)
                    \/ f.name = tbl.schema \o "." \o tbl.name \o "_COMPOUND_PK" \o NumberSuffix(c)

IsPKConstraint(f) == f.dir = "CONSTRAINTS" /\ f.stmt = "PRIMARY KEY"

Rendered == tpc \in {"rendered", "aborted"}

\* C1: for every table whose primary-key set holds 2 or more columns,
\* rendering the table generates exactly one compound unique index and
\* exactly one compound PRIMARY KEY constraint, both listing all primary-key
\* field names in the order the columns were added, and no single-column
\* primary-key index or constraint.
C1_CompoundPrimaryKeyRendered ==
    (Rendered /\ Len(tbl.primarykeys) >= 2) =>
        /\ Cardinality({i \in 1..Len(art) : IsPKIndex(art[i])}) = 1
        /\ Cardinality({i \in 1..Len(art) : IsPKConstraint(art[i])}) = 1
        /\ \A i \in 1..Len(art) :
              (IsPKIndex(art[i]) \/ IsPKConstraint(art[i])) =>
                  /\ art[i].fields = getPKFields(tbl)
                  /\ IsPKIndex(art[i]) => art[i].stmt = "CREATE UNIQUE INDEX"

\* The same statement over the renderings that ran to the end: it holds
\* there, so C1 fails only through the abort.
C1_HoldsWhenNotAborted ==
    (tpc = "rendered" /\ Len(tbl.primarykeys) >= 2) =>
        /\ Cardinality({i \in 1..Len(art) : IsPKIndex(art[i])}) = 1
        /\ Cardinality({i \in 1..Len(art) : IsPKConstraint(art[i])}) = 1
        /\ \A i \in 1..Len(art) :
              (IsPKIndex(art[i]) \/ IsPKConstraint(art[i])) =>
                  /\ art[i].fields = getPKFields(tbl)
                  /\ IsPKIndex(art[i]) => art[i].stmt = "CREATE UNIQUE INDEX"

\* A primary-key index file is unique and is followed by a PRIMARY KEY
\* constraint whose USING INDEX names the identifier the index file created.
PKPairOk(files) ==
    \A i \in 1..Len(files) :
        IsPKIndex(files[i]) =>
            /\ files[i].stmt = "CREATE UNIQUE INDEX"
            /\ i < Len(files)
            /\ IsPKConstraint(files[i + 1])
            /\ files[i + 1].using = files[i].name
            /\ files[i + 1].fields = files[i].fields
            /\ files[i + 1].on = files[i].on

\* C2: for every table with exactly one primary-key column, the index
\* generated for that column is a UNIQUE index (also when the request is
\* flagged non-unique), and the generated constraint is a PRIMARY KEY ...
\* USING INDEX constraint naming the identifier the index script created.
C2_SinglePrimaryKeyIndex ==
    /\ (Rendered /\ Len(tbl.primarykeys) = 1) =>
          /\ PKPairOk(art)
          /\ \A i \in 1..Len(art) :
                (IsPKIndex(art[i]) \/ IsPKConstraint(art[i])) =>
                    art[i].fields = getPKFields(tbl)
          /\ tpc = "rendered" =>
                /\ Cardinality({i \in 1..Len(art) : IsPKIndex(art[i])}) = 1
                /\ Cardinality({i \in 1..Len(art) : IsPKConstraint(art[i])}) = 1
    /\ tpc = "direct" =>
          /\ PKPairOk(lastIdx)
          /\ \A i \in 1..Len(lastIdx) :
                IsPKConstraint(lastIdx[i]) => i > 1 /\ IsPKIndex(lastIdx[i - 1])

C2_Witness ==
    /\ tpc = "rendered"
    /\ Len(tbl.primarykeys) = 1
    /\ tbl.columns[tbl.primarykeys[1]].unique
    /\ \E i \in 1..Len(art) : IsPKIndex(art[i]) /\ art[i].fields = getPKFields(tbl)

(***************************************************************************)
(* Claims on the Table API (SpecTable)                                     *)
(***************************************************************************)
Relaxed(col) ==
    /\ ~col.notnull /\ ~col.primarykey /\ col.default = None
    /\ ~col.indexed /\ col.indexvalue = <<>> /\ ~col.unique
    /\ ~col.sequenced /\ col.fksourcetable = None /\ col.fksourcefield = None

InCluster(t, pos) ==
    \E i \in 1..Len(t.compindex) :
        \E j \in 1..Len(t.compindex[i].cols) : t.compindex[i].cols[j] = pos

\* C3 as stated: every column in the column list of the table returned by
\* genHistoryTable has its not-null, primary-key, default, indexed (and
\* cluster membership), unique, sequenced and foreign-key attributes cleared.
C3_EveryHistoryColumnRelaxed ==
    (tpc = "history" /\ hist # NoTable) =>
        \A i \in 1..Len(hist.columns) :
            /\ Relaxed(hist.columns[i])
            /\ ~InCluster(hist, i)
            /\ \A k \in 1..Len(hist.primarykeys) : hist.primarykeys[k] # i

\* C3 as amended: every column cloned from the source table (the columns
\* after the four spawned history columns HIST_ID, CHANGE, CHANGE_DATE,
\* CHANGE_USER) has these attributes cleared, whatever the source column's
\* settings; the four spawned columns keep the settings they are spawned
\* with (all NOT NULL, HIST_ID the primary key, sequenced and populated by
\* trigger, CHANGE_DATE and CHANGE_USER defaulted).
C3_ClonedHistoryColumnsRelaxed ==
    (tpc = "history" /\ hist # NoTable) =>
        /\ Len(hist.columns) = 4 + Len(tbl.columns)
        /\ \A i \in 1..Len(tbl.columns) :
              /\ hist.columns[4 + i].field = tbl.columns[i].field
              /\ Relaxed(hist.columns[4 + i])
              /\ ~InCluster(hist, 4 + i)
        /\ hist.primarykeys = <<1>>
        /\ hist.compindex = <<>>
        /\ [i \in 1..4 |-> hist.columns[i].field]
              = <<"HIST_ID", "CHANGE", "CHANGE_DATE", "CHANGE_USER">>
        /\ \A i \in 1..4 : hist.columns[i].notnull
        /\ hist.columns[1].primarykey /\ hist.columns[1].sequenced
        /\ hist.columns[1].triggered
        /\ hist.columns[3].default = "SYSDATE" /\ hist.columns[4].default = "USER"

C3_Witness ==
    /\ tpc = "history" /\ hist # NoTable
    /\ \E i \in 1..Len(tbl.columns) :
          /\ tbl.columns[i].primarykey /\ tbl.columns[i].indexed
          /\ tbl.columns[i].unique /\ tbl.columns[i].fksourcetable # None
          /\ tbl.columns[i].notnull /\ tbl.columns[i].default # None
          /\ InCluster(tbl, i)
    /\ \E i \in 1..Len(tbl.columns) :
          /\ tbl.columns[i].notnull /\ tbl.columns[i].sequenced

\* The cluster map addColumn builds from a column list.
RECURSIVE BuiltClusters(_, _, _)
BuiltClusters(ci, cols, pos) ==
    IF pos > Len(cols) THEN ci
    ELSE BuiltClusters(RegisterClusters(ci, cols[pos].indexvalue, pos), cols, pos + 1)

ValidClusters(cols) ==
    SelectSeq(BuiltClusters(<<>>, cols, 1), LAMBDA e : Len(e.cols) >= 2)

\* C5: for a table built by any sequence of addColumn calls,
\* cleanCompoundIndex() completes and leaves a cluster map that contains
\* exactly the clusters that had at least 2 member columns, each with its
\* members unchanged; a second call yields the same map as one call.
C5_CleanCompletesWithValidClusters ==
    cleanCalls >= 1 =>
        /\ ~raised
        /\ tbl.compindex = ValidClusters(tbl.columns)

\* C6: for a table with needsAudit set, after any number (one or more) of
\* genAuditColumns() calls the column list is the original list followed by
\* exactly two audit columns (user name, then change date).
C6_AuditColumnsAppendedOnce ==
    (tbl.needsaudit /\ auditCalls >= 1) =>
        LET n == Len(tbl.columns)
        IN  /\ n >= 3
            /\ tbl.columns[n - 1].field = "U_NAME"
            /\ tbl.columns[n].field = "U_DATE"
            /\ \A i \in 1..(n - 2) : tbl.columns[i].field \notin {"U_NAME", "U_DATE"}

(***************************************************************************)
(* Table script text (table.py, sql_script.py)                             *)
(***************************************************************************)
tab == "    "

\* config['formatting']['table_min_spacing']
table_min_spacing == 30

\* ' ' * n
RECURSIVE Spaces(_)
Spaces(n) == IF n <= 0 THEN "" ELSE " " \o Spaces(n - 1)

WhiteSpace == {" ", "\n", "\t"}

\* s.lstrip(chars) and s.rstrip(chars), chars given as a set
LStrip(s, chars) ==
    LET keep == {i \in 1..Len(s) : Char(s, i) \notin chars}
    IN  IF keep = {} THEN ""
        ELSE SubSeq(s, CHOOSE i \in keep : \A j \in keep : i <= j, Len(s))

RStrip(s, chars) ==
    LET keep == {i \in 1..Len(s) : Char(s, i) \notin chars}
    IN  IF keep = {} THEN ""
        ELSE SubSeq(s, 1, CHOOSE i \in keep : \A j \in keep : i >= j)

\* Column.getTypeString()
getTypeString(col) ==
    IF Upper(col.type) \in {"CHAR", "VARCHAR2", "NUMBER"}
    THEN IF IsDigit(col.size) /\ col.units # ""
         THEN col.type \o "(" \o col.size \o " " \o col.units \o ")"
         ELSE IF col.size # "" THEN col.type \o "(" \o col.size \o ")"
         ELSE col.type
    ELSE col.type

\* Column.getOptionsString()
getOptionsString(col) ==
    LET inv == IF col.invisible THEN "INVISIBLE" ELSE ""
        out == IF col.virtual
               THEN inv \o "    AS (" \o col.virtualexpr \o ") VIRTUAL"
               ELSE inv \o (IF col.default # None
                            THEN "    DEFAULT " \o col.default ELSE "")
                        \o (IF col.notnull THEN "    NOT NULL" ELSE "")
    IN  RStrip(LStrip(out, WhiteSpace), WhiteSpace)

\* Column.getLobOptions()
getLobOptions(col) ==
    IF col.type \in {"BLOB", "CLOB"}
    THEN [isNone |-> FALSE,
          lob_deduplication |-> col.lob_dedup, lob_compression |-> col.lob_compress,
          lob_caching |-> col.lob_cache, lob_logging |-> col.lob_logging]
    ELSE [isNone |-> TRUE]

\* Table.genColumnList(): (field, type-string, options-string, lob-options).
\* The cached list is rebuilt whenever its length differs from the column
\* count; the model always builds it.
genColumnList(t) ==
    [i \in 1..Len(t.columns) |->
        << t.columns[i].field, getTypeString(t.columns[i]),
           getOptionsString(t.columns[i]), getLobOptions(t.columns[i]) >>]

\* lobAsSecureFile(column, tablespace, loboptions)
lobAsSecureFile(column, tablespace, loboptions) ==
    LET dedup    == IF loboptions.lob_deduplication THEN "DEDUPLICATE"
                    ELSE "KEEP_DUPLICATES"
        compress == IF loboptions.lob_compression \in {"LOW", "MEDIUM", "HIGH"}
                    THEN "COMPRESS" \o tab \o loboptions.lob_compression
                    ELSE "NOCOMPRESS"
        cache    == IF loboptions.lob_caching THEN "CACHE" ELSE "NOCACHE"
        log      == IF loboptions.lob_logging THEN "LOGGING" ELSE "NOLOGGING"
    IN  "LOB (" \o column \o ") STORE AS SECUREFILE (\n"
        \o tab \o "TABLESPACE " \o tablespace \o "\n"
        \o tab \o "ENABLE" \o tab \o "STORAGE IN ROW\n"
        \o tab \o "CHUNK" \o tab \o "8192\n"
        \o tab \o "RETENTION\n"
        \o tab \o dedup \o "\n"
        \o tab \o compress \o "\n"
        \o tab \o cache \o "\n"
        \o tab \o log \o "\n"
        \o ")"

\* One line of columnsFormatted.
ColumnLine(col) ==
    LET spacing  == IF Len(col[1]) >= table_min_spacing THEN Spaces(2)
                    ELSE Spaces(table_min_spacing - Len(col[1]))
        spacing2 == Spaces(table_min_spacing - Len(col[2]))
    IN  IF col[3] = ""
        THEN tab \o col[1] \o spacing \o col[2] \o ",\n"
        ELSE tab \o col[1] \o spacing \o col[2] \o spacing2
                 \o LStrip(col[3], WhiteSpace) \o ",\n"

RECURSIVE ColumnsFormatted(_, _)
ColumnsFormatted(columns, i) ==
    IF i > Len(columns) THEN ""
    ELSE ColumnLine(columns[i]) \o ColumnsFormatted(columns, i + 1)

RECURSIVE LobString(_, _, _)
LobString(columns, tablespace, i) ==
    IF i > Len(columns) THEN ""
    ELSE (IF ~columns[i][4].isNone
          THEN lobAsSecureFile(columns[i][1], tablespace, columns[i][4]) \o "\n"
          ELSE "")
         \o LobString(columns, tablespace, i + 1)

\* writeTableScript(schema, tablename, columns, tablespace): the text written
\* to TABLES\<tablename>.sql
writeTableScript(schema, tablename, columns, tablespace) ==
    "prompt --Adding " \o schema \o "." \o tablename \o " table\n\n"
    \o "CREATE TABLE " \o schema \o "." \o tablename \o "\n"
    \o "(\n"
    \o RStrip(ColumnsFormatted(columns, 1), {",", "\n"}) \o "\n"
    \o ")\n"
    \o LobString(columns, tablespace, 1)
    \o "TABLESPACE " \o tablespace \o ";\n"
    \o "/\n"

(***************************************************************************)
(* The DDL-reversal scanner (clean_script.py)                              *)
(***************************************************************************)
clean_order ==
    [VIEWS |-> "DROP VIEW", PROCEDURES |-> "DROP PROCEDURE",
     PACKAGES |-> "DROP PACKAGE", PACKAGE_BODIES |-> "DROP PACKAGE",
     FUNCTIONS |-> "DROP FUNCTION", REF_CONSTRAINTS |-> "DROP CONSTRAINT",
     CONSTRAINTS |-> "DROP CONSTRAINT", INDEXES |-> "DROP INDEX",
     TABLES |-> "DROP TABLE", SYNONYMS |-> "DROP SYNONYM",
     SEQUENCES |-> "DROP SEQUENCE"]

script_starts == {"CREATE", "OR", "REPLACE", "EDITIONABLE", "UNIQUE", "BODY", "FORCE"}

script_types ==
    {"SEQUENCE", "SYNONYM", "TABLE", "INDEX", "CONSTRAINT", "TRIGGER",
     "FUNCTION", "PACKAGE", "PROCEDURE", "VIEW"}

strippable_chars == {"\t", "\n", "(", ")"}

type_to_dir ==
    [SEQUENCE |-> "SEQUENCES", SYNONYM |-> "SYNONYMS", TABLE |-> "TABLES",
     INDEX |-> "INDEXES", CONSTRAINT |-> "CONSTRAINTS", TRIGGER |-> "TRIGGERS",
     FUNCTION |-> "FUNCTIONS", PACKAGE |-> "PACKAGES", PROCEDURE |-> "PROCEDURES",
     VIEW |-> "VIEWS"]

\* The character of string.upper() at i after the strippable characters
\* have been replaced by spaces.
StrippedAt(s, i) ==
    LET c == UpperAt(s, i) IN IF c \in strippable_chars THEN " " ELSE c

\* The loop of formatForParsing: a space is dropped when the character
\* before it (a space at the start) is a space.
FormattedAt(s, i) ==
    LET c    == StrippedAt(s, i)
        prev == IF i = 1 THEN " " ELSE StrippedAt(s, i - 1)
    IN  IF c # prev \/ prev # " " THEN c ELSE ""

\* formatForParsing(string)
RECURSIVE FormattedRange(_, _, _)
FormattedRange(s, lo, hi) ==
    IF lo > hi THEN ""
    ELSE IF lo = hi THEN FormattedAt(s, lo)
    ELSE LET mid == (lo + hi) \div 2
         IN  FormattedRange(s, lo, mid) \o FormattedRange(s, mid + 1, hi)

formatForParsing(string) == FormattedRange(string, 1, Len(string))

\* str.split(): the maximal runs of non-whitespace characters, in order.
Split(s) ==
    LET starts == {i \in 1..Len(s) :
                     /\ Char(s, i) \notin WhiteSpace
                     /\ (i = 1 \/ Char(s, i - 1) \in WhiteSpace)}
        EndOf(i) == CHOOSE j \in i..Len(s) :
                       /\ \A k \in i..j : Char(s, k) \notin WhiteSpace
                       /\ (j = Len(s) \/ Char(s, j + 1) \in WhiteSpace)
        Nth(n)   == CHOOSE i \in starts : Cardinality({j \in starts : j < i}) = n - 1
    IN  [n \in 1..Cardinality(starts) |-> SubSeq(s, Nth(n), EndOf(Nth(n)))]

\* word.endswith((';', '/'))
EndsStatement(word) == Len(word) >= 1 /\ Char(word, Len(word)) \in {";", "/"}

\* One iteration of the word loop of parseSqlCreates.
ScanWord(st, word) ==
    IF word = "CREATE" THEN [st EXCEPT !.isCreate = TRUE]
    ELSE IF st.isCreate
    THEN LET named == word \notin script_starts /\ word \notin script_types
             st1   == IF named
                      THEN [st EXCEPT !.createStatements =
                                         Append(@, <<st.createType, word>>),
                                      !.isCreate = FALSE]
                      ELSE IF word \in script_types
                      THEN [st EXCEPT !.createType = word]
                      ELSE st
         IN  IF EndsStatement(word) THEN [st1 EXCEPT !.isCreate = FALSE] ELSE st1
    ELSE st

RECURSIVE ScanWords(_, _, _)
ScanWords(st, words, i) ==
    IF i > Len(words) THEN st
    ELSE ScanWords(ScanWord(st, words[i]), words, i + 1)

\* i[1] in packages
InPackagesNever(pkgs, name) == FALSE

InPackages(pkgs, name) == \E k \in 1..Len(pkgs) : pkgs[k] = name

\* The output loop of parseSqlCreates over createStatements; type_to_dir['']
\* is a KeyError, and so is clean_order['TRIGGERS'].
RECURSIVE DropLines(_, _, _)
DropLines(out, stmts, i) ==
    IF i > Len(stmts) \/ out.raised THEN out
    ELSE LET createType == stmts[i][1]
             name       == stmts[i][2]
         IN  IF createType \notin DOMAIN type_to_dir
             THEN [out EXCEPT !.raised = TRUE]
             ELSE IF type_to_dir[createType] \notin DOMAIN clean_order
             THEN [out EXCEPT !.raised = TRUE]
             ELSE LET typedir == type_to_dir[createType]
                      isPkg   == typedir \in {"PACKAGES", "PACKAGE_BODIES"}
                      known   == InPackages(out.packages, name)
                  IN  DropLines(
                        IF isPkg /\ ~known
                        THEN [out EXCEPT
                                !.packages = Append(@, name),
                                !.outList = Append(@, clean_order[typedir] \o " "
                                                        \o name \o ";\n")]
                        ELSE IF ~isPkg
                        THEN [out EXCEPT
                                !.outList = Append(@, clean_order[typedir] \o " "
                                                        \o name \o ";")]
                        ELSE out,
                        stmts, i + 1)

\* parseSqlCreates(fileobj) on a file holding filecontent, with the module's
\* packages list as it stands: [outList, packages, raised]
parseSqlCreates(filecontent, pkgs) ==
    LET st == ScanWords([isCreate |-> FALSE, createType |-> "",
                         createStatements |-> <<>>],
                        Split(formatForParsing(filecontent)), 1)
    IN  DropLines([outList |-> <<>>, packages |-> pkgs, raised |-> FALSE],
                  st.createStatements, 1)

(***************************************************************************)
(* SpecClean: a table is built, its CREATE TABLE script is written and     *)
(* handed to the scanner.                                                  *)
(***************************************************************************)
CleanRow(type, size, units, nn, dflt, virt, expr, inv) ==
    [default_schema_row EXCEPT
        !.type = type, !.size = size, !.units = units, !.not_null = nn,
        !.default = dflt, !.virtual = virt, !.virtual_expr = expr,
        !.invisible = inv]

CleanRowPool ==
    { CleanRow("varchar2", "10", "char", "Y", "N", "", "", ""),
      CleanRow("VARCHAR2", "200", "", "", "please create it", "", "", ""),
      CleanRow("NUMBER", "10,2", "", "y", "0", "", "", "y"),
      CleanRow("DATE", "", "", "Y", "sysdate", "", "", ""),
      CleanRow("CLOB", "", "", "", "", "", "", ""),
      CleanRow("NUMBER", "", "", "", "", "Y", "F1 * 2", "") }

InitClean ==
    /\ src = Table("APP_OWNER", "T", "", "", "", 1, FALSE, "")
    /\ script = "" /\ drops = <<>> /\ packages = <<>> /\ cpc = "input"
    /\ tokens = <<>> /\ outdir = <<>> /\ scanned = 0
    /\ IdleTable /\ IdleLoader /\ IdleRun /\ IdleRead /\ IdleGrant /\ IdleFlush

AddCleanRow ==
    /\ cpc = "input"
    /\ Len(src.columns) < MaxCleanCols
    /\ \E r \in CleanRowPool :
          src' = addColumn(src, load([r EXCEPT
                                        !.schema = src.schema, !.table = src.name,
                                        !.field = FieldNames[Len(src.columns) + 1]]))
    /\ UNCHANGED <<script, drops, packages, cpc, tokens, outdir, scanned>>
    /\ UNCHANGED <<tableVars, loaderVars, runVars, readVars, grantVars, flushVars>>

\* writeTableScript(table.schema, table.name, table.genColumnList(), table.tablespace)
WriteTable ==
    /\ cpc = "input"
    /\ Len(src.columns) >= 1
    /\ script' = writeTableScript(src.schema, src.name, genColumnList(src),
                                  src.tablespace)
    /\ cpc' = "written"
    /\ UNCHANGED <<src, drops, packages, tokens, outdir, scanned>>
    /\ UNCHANGED <<tableVars, loaderVars, runVars, readVars, grantVars, flushVars>>

\* creates = parseSqlCreates(obj) on the written file
ParseCreates ==
    /\ cpc = "written"
    /\ LET r == parseSqlCreates(script, packages)
       IN  /\ drops' = r.outList
           /\ packages' = r.packages
           /\ cpc' = IF r.raised THEN "failed" ELSE "parsed"
    /\ UNCHANGED <<src, script, tokens, outdir, scanned>>
    /\ UNCHANGED <<tableVars, loaderVars, runVars, readVars, grantVars, flushVars>>

NextClean ==
    \/ AddCleanRow
    \/ WriteTable
    \/ ParseCreates

SpecClean == InitClean /\ [][NextClean]_vars

\* C4: for every table whose CREATE TABLE script was produced by
\* writeTableScript, feeding that script to parseSqlCreates yields exactly
\* one drop statement, and it is 'DROP TABLE <schema>.<table>;'.
C4_TableScriptRoundTrip ==
    cpc \in {"parsed", "failed"} =>
        /\ cpc = "parsed"
        /\ drops = << "DROP TABLE " \o src.schema \o "." \o src.name \o ";" >>

(***************************************************************************)
(* Loader package generator (sql_script.py), with the configuration        *)
(* defaults: enforce-char-lengths, use-logging and include-delete off.     *)
(* A procedure header is [proc_name, params]; a body is the filled-in      *)
(* template, kept as a record of the parts the template interpolates.      *)
(***************************************************************************)
\* package_template
package_template == [header |-> <<>>, body |-> <<>>]

\* "Load columns for all tables passed": (column, table name, is-parent,
\* table position, column position) for every column that is not virtual
\* or is a primary key.
RECURSIVE CollectColumns(_, _, _)
CollectColumns(tbls, t, c) ==
    IF t > Len(tbls) THEN <<>>
    ELSE IF c > Len(tbls[t].columns) THEN CollectColumns(tbls, t + 1, 1)
    ELSE LET col == tbls[t].columns[c]
         IN  IF ~col.virtual \/ col.primarykey
             THEN << [col |-> col, table |-> tbls[t].name, at |-> <<t, c>>] >>
                    \o CollectColumns(tbls, t, c + 1)
             ELSE CollectColumns(tbls, t, c + 1)

\* tablenames: the upper-cased names of the parent tables
ParentNames(tbls) ==
    { Upper(tbls[t].name) : t \in {k \in 1..Len(tbls) : tbls[k].name # tbls[1].name} }

\* parentLoadColumns after the collection loop: the collected columns of
\* the last parent table of the list
ParentLoadColumns(tbls, columns) ==
    LET parents == {k \in 1..Len(tbls) : tbls[k].name # tbls[1].name}
    IN  IF parents = {} THEN <<>>
        ELSE LET last == CHOOSE k \in parents : \A j \in parents : j <= k
             IN  SelectSeq(columns, LAMBDA e : e.at[1] = last)

FKToChain(col, tablenames) ==
    col.fksourcetable # None /\ Upper(col.fksourcetable) \in tablenames

\* str.replace(oldio, newio) on the entries of a formatted list
ReplaceIn(seq, oldio, newio) ==
    [i \in 1..Len(seq) |-> IF seq[i] = oldio THEN newio ELSE seq[i]]

Param(name, io, type, defaultNull) ==
    [name |-> name, io |-> io, type |-> type, defaultNull |-> defaultNull]

\* One iteration of the parameter loop of addInsertUpdateToLoaderPackage.
LoaderStep(st, e, tablename, tablenames, hasMultiTable, parentLoadColumns) ==
    LET col           == e.col
        name          == Upper(col.field)
        type          == Upper(col.type)
        firstTable    == st.firstTable /\ e.table = tablename
        used          == \E k \in 1..Len(st.fieldsUsed) : st.fieldsUsed[k] = name
        excludeParams == used \/ FKToChain(col, tablenames)
        fieldsUsed    == IF excludeParams THEN st.fieldsUsed
                         ELSE Append(st.fieldsUsed, name)
        firstKey      == st.firstPrimary /\ col.primarykey
        laterKey      == ~st.firstPrimary /\ col.primarykey
        io            == IF col.primarykey THEN <<"IN OUT", "io">> ELSE <<"IN", "in">>
        excludeIU     == col.primarykey
        defaultNull   == /\ ~col.primarykey
                         /\ \/ ~col.notnull \/ col.default # None
                            \/ hasMultiTable /\ FKToChain(col, tablenames)
                            \/ col.triggered
        oldio         == "p_in_" \o Lower(name)
        newio         == "p_io_" \o Lower(name)
        insCols       == IF laterKey THEN ReplaceIn(st.insert_columns, oldio, newio)
                         ELSE st.insert_columns
        insVals       == IF laterKey THEN ReplaceIn(st.insert_values, oldio, newio)
                         ELSE st.insert_values
        updCols       == IF laterKey
                         THEN [i \in 1..Len(st.update_columns) |->
                                 [st.update_columns[i] EXCEPT
                                    !.value = IF @ = oldio THEN newio ELSE @]]
                         ELSE st.update_columns
        updWhere      == IF laterKey THEN ReplaceIn(st.update_where, oldio, newio)
                         ELSE st.update_where
        insert_value  == "p_" \o io[2] \o "_" \o Lower(name)
        param         == Param(insert_value, io[1], type, defaultNull)
        st1           == [st EXCEPT
                            !.firstTable = firstTable,
                            !.fieldsUsed = fieldsUsed,
                            !.primaryKey = IF firstKey THEN col.field ELSE @,
                            !.firstPrimary = IF firstKey THEN FALSE ELSE @,
                            !.insert_columns = insCols,
                            !.insert_values = insVals,
                            !.update_columns = updCols,
                            !.update_where = updWhere]
        withIU(s0)    == [s0 EXCEPT
                            !.insert_columns = Append(@, name),
                            !.insert_values = Append(@, insert_value),
                            !.update_columns = Append(@, [name |-> name,
                                                          value |-> insert_value]),
                            !.update_where = Append(@, insert_value)]
    IN  IF st.firstCol
        THEN LET s0 == [st1 EXCEPT !.params = Append(@, param), !.firstCol = FALSE]
             IN  IF ~excludeIU THEN withIU(s0) ELSE s0
        ELSE IF firstTable
        THEN LET s0 == IF ~excludeParams
                       THEN [st1 EXCEPT !.params = Append(@, param)] ELSE st1
             IN  IF ~excludeIU THEN withIU(s0) ELSE s0
        ELSE LET s0 == IF ~excludeParams
                       THEN [st1 EXCEPT !.params = Append(@, param)] ELSE st1
             IN  IF parentLoadColumns = <<>>
                 THEN [s0 EXCEPT !.raised = TRUE]
                 ELSE IF e.at = parentLoadColumns[1].at
                 THEN [s0 EXCEPT !.parentLoadParams = <<insert_value>>]
                 ELSE [s0 EXCEPT !.parentLoadParams = Append(@, insert_value)]

RECURSIVE LoaderLoop(_, _, _, _, _, _, _)
LoaderLoop(st, columns, i, tablename, tablenames, hasMultiTable, parentLoadColumns) ==
    IF i > Len(columns) \/ st.raised THEN st
    ELSE LoaderLoop(LoaderStep(st, columns[i], tablename, tablenames,
                               hasMultiTable, parentLoadColumns),
                    columns, i + 1, tablename, tablenames, hasMultiTable,
                    parentLoadColumns)

\* paramsAdd (use-logging off)
paramsAdd ==
    << Param("p_out_return", "OUT", "NUMBER", FALSE),
       Param("p_out_message", "OUT", "VARCHAR2", FALSE),
       Param("p_out_rowcount", "OUT", "NUMBER", FALSE),
       Param("p_in_docommit", "IN", "NUMBER", TRUE) >>

ParamNames(ps) == [i \in 1..Len(ps) |-> ps[i].name]

\* The mutant of LoaderBody whose INSERT returns the key into the plain IN
\* parameter name.
LoaderBodyReturnsIntoIn(schema, tablename, proc_name, st, parentName) ==
    [proc_name    |-> proc_name,
     params       |-> st.params,
     load_parents |-> IF parentName = None THEN <<>>
                      ELSE << [call |-> "P_LOAD_" \o parentName,
                               args |-> st.parentLoadParams] >>,
     ifNotNull    |-> "p_io_" \o Lower(st.primaryKey),
     thenBranch   |-> [stmt |-> "UPDATE", table |-> tablename,
                       set |-> st.update_columns,
                       whereField |-> st.primaryKey,
                       whereParam |-> "p_io_" \o Lower(st.primaryKey),
                       andChanged |-> st.update_where],
     elseBranch   |-> [stmt |-> "INSERT", table |-> schema \o "." \o tablename,
                       columns |-> st.insert_columns,
                       values |-> st.insert_values,
                       returningField |-> st.primaryKey,
                       returningInto |-> "p_in_" \o Lower(st.primaryKey)]]

\* to_save_body: the body template.  Between BEGIN and EXCEPTION it holds the
\* parent call, then one IF <param> IS NOT NULL THEN <UPDATE> ELSE <INSERT>
\* END IF, and no other conditional around the two statements.
LoaderBody(schema, tablename, proc_name, st, parentName) ==
    [proc_name    |-> proc_name,
     params       |-> st.params,
     load_parents |-> IF parentName = None THEN <<>>
                      ELSE << [call |-> "P_LOAD_" \o parentName,
                               args |-> st.parentLoadParams] >>,
     ifNotNull    |-> "p_io_" \o Lower(st.primaryKey),
     thenBranch   |-> [stmt |-> "UPDATE", table |-> tablename,
                       set |-> st.update_columns,
                       whereField |-> st.primaryKey,
                       whereParam |-> "p_io_" \o Lower(st.primaryKey),
                       andChanged |-> st.update_where],
     elseBranch   |-> [stmt |-> "INSERT", table |-> schema \o "." \o tablename,
                       columns |-> st.insert_columns,
                       values |-> st.insert_values,
                       returningField |-> st.primaryKey,
                       returningInto |-> "p_io_" \o Lower(st.primaryKey)]]

\* addInsertUpdateToLoaderPackage(schema, tables) on the accumulator acc:
\* [acc, raised].  The body template reads primaryKey.field: with no primary
\* key among the columns it raises AttributeError and nothing is appended.
addInsertUpdateToLoaderPackage(acc, schema, tbls) ==
    LET tablename  == tbls[1].name
        columns    == CollectColumns(tbls, 1, 1)
        tablenames == ParentNames(tbls)
        plc        == ParentLoadColumns(tbls, columns)
        st0 == [params |-> <<>>, insert_columns |-> <<>>, insert_values |-> <<>>,
                update_columns |-> <<>>, update_where |-> <<>>,
                firstCol |-> TRUE, firstTable |-> TRUE, fieldsUsed |-> <<>>,
                primaryKey |-> None, firstPrimary |-> TRUE,
                parentLoadParams |-> <<>>, raised |-> FALSE]
        st1 == LoaderLoop(st0, columns, 1, tablename, tablenames, Len(tbls) > 1, plc)
        st2 == [st1 EXCEPT !.params = @ \o paramsAdd,
                           !.parentLoadParams = @ \o ParamNames(paramsAdd)]
        proc_name  == "P_LOAD_" \o tablename
        parentName == IF tablenames = {} THEN None
                      ELSE Upper(tbls[CHOOSE k \in 2..Len(tbls) :
                                        /\ tbls[k].name # tablename
                                        /\ \A j \in 2..(k - 1) :
                                              tbls[j].name = tablename].name)
    IN  IF st1.raised \/ st1.primaryKey = None
        THEN [acc |-> acc, raised |-> TRUE]
        ELSE [acc |-> [acc EXCEPT
                         ![schema].header = Append(@, [proc_name |-> proc_name,
                                                       params |-> st2.params]),
                         ![schema].body = Append(@, LoaderBody(schema, tablename,
                                                       proc_name, st2, parentName))],
              raised |-> FALSE]

\* addToLoaderPackage(schema, tables)
addToLoaderPackage(acc, schema, tbls) ==
    addInsertUpdateToLoaderPackage(
        IF schema \notin DOMAIN acc THEN acc @@ (schema :> package_template) ELSE acc,
        schema, tbls)

(***************************************************************************)
(* SpecLoader: a loader chain is put together (the child column by column, *)
(* its ancestors whole) and handed to addToLoaderPackage, as processTable  *)
(* does for a table flagged for the loader.                                *)
(***************************************************************************)
TableNames == <<"T1", "T2", "T3", "T4", "T5">>

LoaderRow(field, type, pk, nn, sq, virt, fkt) ==
    [default_schema_row EXCEPT
        !.field = field, !.type = type, !.primary_key = pk, !.not_null = nn,
        !.sequence_start = sq, !.pop_by_trigger = IF sq = "" THEN "" ELSE "Y",
        !.virtual = virt, !.virtual_expr = IF virt = "" THEN "" ELSE "1",
        !.fk_to_table = fkt, !.fk_to_field = IF fkt = "" THEN "" ELSE "PID"]

\* Rows of the table at position k of the chain; a foreign key points to
\* the next table of the chain.
LoaderRowPool(k) ==
    { LoaderRow("id", "number", "Y", "Y", "1", "", ""),
      LoaderRow("PID", "NUMBER", "Y", "Y", "", "", TableNames[k + 1]),
      LoaderRow("PID", "NUMBER", "", "Y", "", "", Lower(TableNames[k + 1])),
      LoaderRow("PID", "NUMBER", "y", "", "", "", ""),
      LoaderRow("V", "VARCHAR2", "", "", "", "", ""),
      LoaderRow("X", "NUMBER", "", "", "", "Y", "") }

RECURSIVE LoadRows(_, _, _)
LoadRows(t, rows, i) ==
    IF i > Len(rows) THEN t
    ELSE LoadRows(addColumn(t, load([rows[i] EXCEPT !.schema = t.schema,
                                                    !.table = t.name])),
                  rows, i + 1)

\* The ancestor tables offered for position k of the chain.
AncestorPool(k) ==
    LET T == Table("APP_OWNER", TableNames[k], "", "", "", k, FALSE, "")
        next == TableNames[k + 1]
    IN  { LoadRows(T, << LoaderRow("PID", "NUMBER", "Y", "Y", "", "", ""),
                         LoaderRow("W", "VARCHAR2", "", "", "", "", "") >>, 1),
          LoadRows(T, << LoaderRow("ID", "NUMBER", "Y", "Y", "1", "", ""),
                         LoaderRow("GID", "NUMBER", "", "Y", "", "", next),
                         LoaderRow("V", "VARCHAR2", "", "Y", "", "", "") >>, 1),
          LoadRows(T, << LoaderRow("W", "VARCHAR2", "", "Y", "", "", "") >>, 1),
          LoadRows(T, << LoaderRow("X", "NUMBER", "", "", "", "Y", "") >>, 1) }

InitLoader ==
    /\ chain = << Table("APP_OWNER", TableNames[1], "", "", "", 1, FALSE, "") >>
    /\ loader = <<>>
    /\ lpc = "input"
    /\ lpkg = NoPackages
    /\ IdleTable /\ IdleClean /\ IdleRun /\ IdleRead /\ IdleGrant /\ IdleFlush

AddLoaderRow ==
    /\ lpc = "input"
    /\ Len(chain) = 1
    /\ Len(chain[1].columns) < MaxLoaderCols
    /\ \E r \in LoaderRowPool(1) :
          /\ \A i \in 1..Len(chain[1].columns) :
                chain[1].columns[i].field # Upper(r.field)
          /\ chain' = << LoadRows(chain[1], <<r>>, 1) >>
    /\ UNCHANGED <<loader, lpc, lpkg>>
    /\ UNCHANGED <<tableVars, cleanVars, runVars, readVars, grantVars, flushVars>>

\* The table's loaderParent, its loaderParent, ...
AddAncestor ==
    /\ lpc = "input"
    /\ Len(chain) < MaxChain
    /\ Len(chain[1].columns) >= 1
    /\ \E a \in AncestorPool(Len(chain) + 1) : chain' = Append(chain, a)
    /\ UNCHANGED <<loader, lpc, lpkg>>
    /\ UNCHANGED <<tableVars, cleanVars, runVars, readVars, grantVars, flushVars>>

\* sql.addToLoaderPackage(table.schema, tables)
GenerateLoader ==
    /\ lpc = "input"
    /\ Len(chain[1].columns) >= 1
    /\ LET r == addToLoaderPackage(loader, chain[1].schema, chain)
       IN  /\ loader' = r.acc
           /\ lpc' = IF r.raised THEN "failed" ELSE "done"
    /\ UNCHANGED <<chain, lpkg>>
    /\ UNCHANGED <<tableVars, cleanVars, runVars, readVars, grantVars, flushVars>>

\* A pool worker runs processTable(table) on the table of the chain, which
\* is flagged for the loader package: the loader procedure is generated
\* after cleanCompoundIndex and before anything is written.  processTable
\* has no exception handler, so the AttributeError of
\* addInsertUpdateToLoaderPackage leaves it there; the pool keeps the
\* exception and main goes on.
ProcessLoaderTable ==
    /\ lpc = "input"
    /\ Len(chain[1].columns) >= 1
    /\ \E cl \in {cleanCompoundIndex(chain[1])} :
       \E r \in {IF cl.raised THEN [acc |-> loader, raised |-> TRUE]
                 ELSE addToLoaderPackage(loader, cl.table.schema,
                                         <<cl.table>> \o Tail(chain))} :
       \E p \in {IF r.raised
                 THEN [table |-> cl.table, art |-> <<>>, aborted |-> TRUE]
                 ELSE processTable(cl.table)} :
          /\ loader' = r.acc
          /\ tbl' = p.table
          /\ art' = p.art
          /\ tpc' = IF p.aborted THEN "aborted" ELSE "rendered"
          /\ lpc' = IF p.aborted THEN "failed" ELSE "done"
    /\ UNCHANGED <<chain, lpkg>>
    /\ UNCHANGED <<hist, raised, cleanCalls, auditCalls, lastIdx>>
    /\ UNCHANGED <<cleanVars, runVars, readVars, grantVars, flushVars>>

\* The loop of writeLoaderPackage over the keys of acc from position i:
\* [schemas returned, files: the schemas whose header and body were written]
RECURSIVE PackageLoop(_, _, _, _)
PackageLoop(out, acc, keys, i) ==
    IF i > Len(keys) THEN out
    ELSE LET schema == keys[i]
             pkg    == acc[schema]
             out1   == [out EXCEPT !.schemas = Append(@, schema)]
         IN  PackageLoop(
               IF Len(pkg.header) # Len(pkg.body) THEN out1
               ELSE IF Len(pkg.header) > 0
               THEN [out1 EXCEPT !.files = @ \cup {schema}]
               ELSE out1,
               acc, keys, i + 1)

\* The keys of an accumulator, as a sequence.
RECURSIVE KeysOf(_)
KeysOf(acc) ==
    IF DOMAIN acc = {} THEN <<>>
    ELSE LET k == CHOOSE x \in DOMAIN acc : TRUE
         IN  <<k>> \o KeysOf([x \in DOMAIN acc \ {k} |-> acc[x]])

\* writeLoaderPackage()
writeLoaderPackage(acc) ==
    PackageLoop([called |-> TRUE, schemas |-> <<>>, files |-> {}], acc, KeysOf(acc), 1)

\* main, after the pool has been joined: schemas = sql.writeLoaderPackage().
\* An exception inside a worker does not keep main from getting here.
WriteLoaderPackage ==
    /\ lpc \in {"done", "failed"}
    /\ ~lpkg.called
    /\ lpkg' = writeLoaderPackage(loader)
    /\ UNCHANGED <<chain, loader, lpc>>
    /\ UNCHANGED <<tableVars, cleanVars, runVars, readVars, grantVars, flushVars>>

NextLoader ==
    \/ AddLoaderRow
    \/ AddAncestor
    \/ GenerateLoader
    \/ ProcessLoaderTable
    \/ WriteLoaderPackage

SpecLoader == InitLoader /\ [][NextLoader]_vars

Generated == loader[chain[1].schema]

\* The first primary-key column among the collected columns of the chain.
FirstKeyField ==
    LET cols == CollectColumns(chain, 1, 1)
        keys == {i \in 1..Len(cols) : cols[i].col.primarykey}
    IN  cols[CHOOSE i \in keys : \A j \in keys : i <= j].col.field

\* C8: in every generated loader insert/update procedure the null-check on
\* the IN OUT primary-key parameter is the only branch choosing between the
\* two statements: non-null takes the UPDATE ... WHERE branch, null takes the
\* INSERT ... RETURNING branch, and both branches reference the same
\* primary-key field name (and the same parameter).
C8_KeyNullCheckSelectsBranch ==
    lpc = "done" =>
        /\ Len(Generated.body) = 1
        /\ LET b  == Generated.body[1]
               pk == FirstKeyField
           IN  /\ b.ifNotNull = "p_io_" \o Lower(pk)
               /\ b.thenBranch.stmt = "UPDATE"
               /\ b.thenBranch.whereField = pk
               /\ b.thenBranch.whereParam = b.ifNotNull
               /\ b.elseBranch.stmt = "INSERT"
               /\ b.elseBranch.returningField = pk
               /\ b.elseBranch.returningInto = b.ifNotNull
               /\ b.thenBranch.whereField = b.elseBranch.returningField
               /\ \A i \in 1..Len(b.params) :
                     b.params[i].name = b.ifNotNull => b.params[i].io = "IN OUT"

C8_Witness ==
    /\ lpc = "done"
    /\ Len(chain) >= 2
    /\ Len(Generated.body) = 1
    /\ \E i \in 1..Len(Generated.body[1].params) :
          /\ Generated.body[1].params[i].name = Generated.body[1].ifNotNull
          /\ Generated.body[1].params[i].io = "IN OUT"
    /\ Generated.body[1].thenBranch.set # <<>>

\* The parameters a chain should declare: one per distinct name among the
\* collected columns whose foreign key does not target a parent of the
\* chain, child columns first; IN OUT for primary keys.
ExpectedParams ==
    LET cols     == CollectColumns(chain, 1, 1)
        eligible == SelectSeq(cols, LAMBDA e : ~FKToChain(e.col, ParentNames(chain)))
        firsts   == {i \in 1..Len(eligible) :
                       \A j \in 1..(i - 1) : eligible[j].col.field # eligible[i].col.field}
        Nth(n)   == CHOOSE i \in firsts : Cardinality({j \in firsts : j < i}) = n - 1
    IN  [n \in 1..Cardinality(firsts) |->
            [name |-> "p_" \o (IF eligible[Nth(n)].col.primarykey THEN "io" ELSE "in")
                          \o "_" \o Lower(eligible[Nth(n)].col.field),
             io   |-> IF eligible[Nth(n)].col.primarykey THEN "IN OUT" ELSE "IN"]]

\* C9: for any loader parent chain the signature of the generated
\* insert-or-update procedure declares exactly one parameter per distinct
\* contributing column name, child columns first; it omits every column
\* whose name was already contributed by a more specific table and every
\* column whose foreign key targets a table of the parent chain; primary-key
\* columns are IN OUT; no parameter name is declared twice.
C9_SignatureParameters ==
    lpc = "done" =>
        LET ps   == Generated.header[1].params
            own  == SubSeq(ps, 1, Len(ps) - Len(paramsAdd))
        IN  /\ [i \in 1..Len(own) |-> [name |-> own[i].name, io |-> own[i].io]]
                  = ExpectedParams
            /\ \A i, j \in 1..Len(ps) : ps[i].name = ps[j].name => i = j

(***************************************************************************)
(* Spec: a run of main().  The schema file has been read into todo; main   *)
(* loads the rows into the registry, derives the history tables from a     *)
(* deep copy, then submits one processTable task per registry entry to a   *)
(* ThreadPoolExecutor(threads).  The executor starts tasks in submission   *)
(* order, at most `threads` at a time; an exception inside a task is kept  *)
(* in its future, which nobody reads.                                      *)
(***************************************************************************)
\* os.cpu_count() ^ 2 (exclusive or) for 2, 3 and 1 processors
ThreadCounts == {0, 1, 3}

RunRow(table, audit, history, pk, idx) ==
    [default_schema_row EXCEPT
        !.schema = "APP_OWNER", !.table = table, !.type = "NUMBER",
        !.primary_key = pk, !.index = idx]
      @@ [gen_audit_columns |-> audit, gen_history_tables |-> history,
          table_comment |-> IF table = "T2" THEN "Table 2" ELSE "",
          loader_parent_table |-> ""]

RunRowPool ==
    { RunRow("T1", "Y", "Y", "Y", <<>>),
      RunRow("T1", "", "y", "", <<>>),
      RunRow("T2", "y", "Y", "", <<"U">>),
      RunRow("T2", "Y", "", "", <<"Y1">>),
      RunRow("T2", "", "", "Y", <<>>) }

SchemaTable(schema, name) == schema \o "." \o name

\* Position of key in the registry, 0 when absent.
KeyIndex(reg, key) ==
    IF \E i \in 1..Len(reg) : reg[i].key = key
    THEN CHOOSE i \in 1..Len(reg) : reg[i].key = key
    ELSE 0

\* tables[key] = table
SetTable(reg, key, table) ==
    IF KeyIndex(reg, key) = 0 THEN Append(reg, [key |-> key, table |-> table])
    ELSE [reg EXCEPT ![KeyIndex(reg, key)].table = table]

Init ==
    /\ \E n \in 1..MaxRows : \E rows \in [1..n -> RunRowPool] :
          todo = [i \in 1..n |-> [rows[i] EXCEPT !.field = FieldNames[i]]]
    /\ usePackage \in BOOLEAN
    /\ poolSize \in ThreadCounts
    /\ tables = <<>> /\ holdTables = <<>> /\ mainCount = 1
    /\ mpc = "load" /\ nextRow = 1
    /\ wpc = <<>> /\ wlocal = <<>> /\ taken = 0
    /\ histPkg = [map |-> <<>>, objs |-> <<>>] /\ generated = {}
    /\ IdleTable /\ IdleLoader /\ IdleClean /\ IdleRead /\ IdleGrant /\ IdleFlush

\* One iteration of "for row in todo".
LoadRow ==
    /\ mpc = "load"
    /\ nextRow <= Len(todo)
    /\ LET row         == todo[nextRow]
           schematable == SchemaTable(row.schema, row.table)
           k           == KeyIndex(tables, schematable)
           newcol      == load(row)
       IN  IF k # 0
           THEN /\ tables' = SetTable(tables, schematable,
                                      addColumn(tables[k].table, newcol))
                /\ mainCount' = mainCount
           ELSE /\ tables' = SetTable(tables, schematable,
                                addColumn(Table(row.schema, row.table,
                                                row.gen_audit_columns,
                                                row.gen_history_tables,
                                                row.table_comment, mainCount,
                                                FALSE, ""),
                                          newcol))
                /\ mainCount' = mainCount + 1
    /\ nextRow' = nextRow + 1
    /\ UNCHANGED <<todo, holdTables, mpc, usePackage, poolSize, wpc, wlocal, taken,
                   histPkg, generated>>
    /\ UNCHANGED <<tableVars, loaderVars, cleanVars, readVars, grantVars, flushVars>>

\* holdTables = copy.deepcopy(tables)
SnapshotTables ==
    /\ mpc = "load"
    /\ nextRow > Len(todo)
    /\ holdTables' = tables
    /\ mpc' = "history"
    /\ nextRow' = 1
    /\ UNCHANGED <<todo, tables, mainCount, usePackage, poolSize, wpc, wlocal, taken,
                   histPkg, generated>>
    /\ UNCHANGED <<tableVars, loaderVars, cleanVars, readVars, grantVars, flushVars>>

\* The history loop calling genHistoryTable() without a number: the history
\* table takes the number of its source table.
GenerateHistoryTablesUnnumbered ==
    /\ mpc = "history"
    /\ nextRow <= Len(holdTables)
    /\ LET table     == holdTables[nextRow].table
           histTable == genHistoryTable(table, table.tableNumber)
       IN  tables' = IF histTable # NoTable
                     THEN SetTable(tables,
                                   SchemaTable(table.schema, "H_" \o table.name),
                                   histTable)
                     ELSE tables
    /\ mainCount' = mainCount + 1
    /\ nextRow' = nextRow + 1
    /\ UNCHANGED <<todo, holdTables, mpc, usePackage, poolSize, wpc, wlocal, taken,
                   histPkg, generated>>
    /\ UNCHANGED <<tableVars, loaderVars, cleanVars, readVars, grantVars, flushVars>>

\* One iteration of "for key in holdTables.keys()":
\* generateHistoryTables(holdTables[key], tableCount); tableCount += 1
GenerateHistoryTables ==
    /\ mpc = "history"
    /\ nextRow <= Len(holdTables)
    /\ LET table     == holdTables[nextRow].table
           histTable == genHistoryTable(table, mainCount)
       IN  tables' = IF histTable # NoTable
                     THEN SetTable(tables,
                                   SchemaTable(table.schema, "H_" \o table.name),
                                   histTable)
                     ELSE tables
    /\ mainCount' = mainCount + 1
    /\ nextRow' = nextRow + 1
    /\ UNCHANGED <<todo, holdTables, mpc, usePackage, poolSize, wpc, wlocal, taken,
                   histPkg, generated>>
    /\ UNCHANGED <<tableVars, loaderVars, cleanVars, readVars, grantVars, flushVars>>

\* The pool opened inside the history loop, before its last iteration.
StartPoolEarly ==
    /\ mpc = "history"
    /\ IF poolSize = 0
       THEN /\ mpc' = "crashed"
            /\ UNCHANGED <<wpc, wlocal>>
       ELSE /\ mpc' = "pool"
            /\ wpc' = [i \in 1..Len(tables) |-> "queued"]
            /\ wlocal' = [i \in 1..Len(tables) |-> 0]
    /\ UNCHANGED <<todo, tables, holdTables, mainCount, nextRow, usePackage, poolSize,
                   taken, histPkg, generated>>
    /\ UNCHANGED <<tableVars, loaderVars, cleanVars, readVars, grantVars, flushVars>>

\* with ThreadPoolExecutor(threads) as pool: pool.map(processTable, ...)
\* ThreadPoolExecutor(0) raises ValueError.
StartPool ==
    /\ mpc = "history"
    /\ nextRow > Len(holdTables)
    /\ IF poolSize = 0
       THEN /\ mpc' = "crashed"
            /\ UNCHANGED <<wpc, wlocal>>
       ELSE /\ mpc' = "pool"
            /\ wpc' = [i \in 1..Len(tables) |-> "queued"]
            /\ wlocal' = [i \in 1..Len(tables) |-> 0]
    /\ UNCHANGED <<todo, tables, holdTables, mainCount, nextRow, usePackage, poolSize,
                   taken, histPkg, generated>>
    /\ UNCHANGED <<tableVars, loaderVars, cleanVars, readVars, grantVars, flushVars>>

Running == {i \in 1..Len(wpc) : wpc[i] \notin {"queued", "done", "failed"}}

\* A pool thread takes the next task: processTable up to and including
\* table.cleanCompoundIndex().
WorkerStart ==
    /\ mpc = "pool"
    /\ taken < Len(wpc)
    /\ Cardinality(Running) < poolSize
    /\ LET i == taken + 1
           r == cleanCompoundIndex(tables[i].table)
       IN  /\ tables' = [tables EXCEPT ![i].table = r.table]
           /\ wpc' = [wpc EXCEPT ![i] =
                        IF r.raised THEN "failed"
                        ELSE IF r.table.needshistory /\ usePackage THEN "check"
                        ELSE "rest"]
    /\ taken' = taken + 1
    /\ UNCHANGED <<todo, holdTables, mainCount, mpc, nextRow, usePackage, poolSize,
                   wlocal, histPkg, generated>>
    /\ UNCHANGED <<tableVars, loaderVars, cleanVars, readVars, grantVars, flushVars>>

\* saveHistoryProcedure: if schema not in history_package_schema.keys()
HistCheck(i) ==
    /\ mpc = "pool" /\ wpc[i] = "check"
    /\ wpc' = [wpc EXCEPT ![i] =
                 IF tables[i].table.schema \in DOMAIN histPkg.map THEN "read"
                 ELSE "create"]
    /\ UNCHANGED <<todo, tables, holdTables, mainCount, mpc, nextRow, usePackage,
                   poolSize, wlocal, taken, histPkg, generated>>
    /\ UNCHANGED <<tableVars, loaderVars, cleanVars, readVars, grantVars, flushVars>>

\* history_package_schema[schema] = copy.deepcopy(package_template)
HistCreate(i) ==
    /\ mpc = "pool" /\ wpc[i] = "create"
    /\ LET schema == tables[i].table.schema
           fresh  == Len(histPkg.objs) + 1
       IN  histPkg' = [map  |-> IF schema \in DOMAIN histPkg.map
                                THEN [histPkg.map EXCEPT ![schema] = fresh]
                                ELSE histPkg.map @@ (schema :> fresh),
                       objs |-> Append(histPkg.objs, package_template)]
    /\ wpc' = [wpc EXCEPT ![i] = "read"]
    /\ UNCHANGED <<todo, tables, holdTables, mainCount, mpc, nextRow, usePackage,
                   poolSize, wlocal, taken, generated>>
    /\ UNCHANGED <<tableVars, loaderVars, cleanVars, readVars, grantVars, flushVars>>

\* history = history_package_schema[schema]
HistRead(i) ==
    /\ mpc = "pool" /\ wpc[i] = "read"
    /\ wlocal' = [wlocal EXCEPT ![i] = histPkg.map[tables[i].table.schema]]
    /\ wpc' = [wpc EXCEPT ![i] = "header"]
    /\ UNCHANGED <<todo, tables, holdTables, mainCount, mpc, nextRow, usePackage,
                   poolSize, taken, histPkg, generated>>
    /\ UNCHANGED <<tableVars, loaderVars, cleanVars, readVars, grantVars, flushVars>>

ProcName(tablename) == "P_H_" \o tablename \o "_WRITE"

\* history['header'].append(to_save_header)
HistHeader(i) ==
    /\ mpc = "pool" /\ wpc[i] = "header"
    /\ histPkg' = [histPkg EXCEPT
                     !.objs[wlocal[i]].header = Append(@, ProcName(tables[i].table.name))]
    /\ wpc' = [wpc EXCEPT ![i] = "body"]
    /\ UNCHANGED <<todo, tables, holdTables, mainCount, mpc, nextRow, usePackage,
                   poolSize, wlocal, taken, generated>>
    /\ UNCHANGED <<tableVars, loaderVars, cleanVars, readVars, grantVars, flushVars>>

\* history['body'].append(to_save_body); return the procedure name
HistBody(i) ==
    /\ mpc = "pool" /\ wpc[i] = "body"
    /\ histPkg' = [histPkg EXCEPT
                     !.objs[wlocal[i]].body = Append(@, ProcName(tables[i].table.name))]
    /\ generated' = generated \union
                      {[schema |-> tables[i].table.schema,
                        proc |-> ProcName(tables[i].table.name)]}
    /\ wpc' = [wpc EXCEPT ![i] = "rest"]
    /\ UNCHANGED <<todo, tables, holdTables, mainCount, mpc, nextRow, usePackage,
                   poolSize, wlocal, taken>>
    /\ UNCHANGED <<tableVars, loaderVars, cleanVars, readVars, grantVars, flushVars>>

\* addColumnComment(schema, tablename, field, comment): the line appended
addColumnComment(schema, tablename, field, comment) ==
    "COMMENT ON COLUMN " \o schema \o "." \o tablename \o "." \o field
        \o " IS '" \o comment \o "';\n"

\* addTableComment(schema, tablename, comment): the line appended
addTableComment(schema, tablename, comment) ==
    "\nCOMMENT ON TABLE " \o schema \o "." \o tablename \o " IS '" \o comment \o "';\n"

\* The lines processTable and its processColumn calls append to comments for
\* a table whose columns (audit columns included) are cols from position c.
RECURSIVE ColumnComments(_, _, _)
ColumnComments(table, cols, c) ==
    IF c > Len(cols) THEN <<>>
    ELSE (IF cols[c].comment # None
          THEN <<addColumnComment(table.schema, table.name, cols[c].field,
                                  cols[c].comment)>>
          ELSE <<>>) \o ColumnComments(table, cols, c + 1)

TableComments(table) ==
    (IF table.comment # ""
     THEN <<addTableComment(table.schema, table.name, table.comment)>> ELSE <<>>)
      \o ColumnComments(table, table.columns, 1)

\* The rest of processTable: the history triggers, the audit columns and
\* audit trigger, the key, index and table scripts and the column loop.
WorkerRest(i) ==
    /\ mpc = "pool" /\ wpc[i] = "rest"
    /\ \E r \in {processTable(tables[i].table)} :
          /\ tables' = [tables EXCEPT ![i].table = r.table]
          /\ comments' = IF r.aborted THEN comments
                         ELSE comments \o TableComments(r.table)
    /\ wpc' = [wpc EXCEPT ![i] = "done"]
    /\ UNCHANGED <<todo, holdTables, mainCount, mpc, nextRow, usePackage, poolSize,
                   wlocal, taken, histPkg, generated>>
    /\ UNCHANGED <<commentsFile, flushes, epc>>
    /\ UNCHANGED <<tableVars, loaderVars, cleanVars, readVars, grantVars>>

\* Leaving the with block waits for every task.
JoinPool ==
    /\ mpc = "pool"
    /\ \A i \in 1..Len(wpc) : wpc[i] \in {"done", "failed"}
    /\ mpc' = "done"
    /\ epc' = "comments"
    /\ UNCHANGED <<todo, tables, holdTables, mainCount, nextRow, usePackage, poolSize,
                   wpc, wlocal, taken, histPkg, generated>>
    /\ UNCHANGED <<comments, commentsFile, flushes>>
    /\ UNCHANGED <<tableVars, loaderVars, cleanVars, readVars, grantVars>>

\* writeComments() losing the first line of the accumulator
writeCommentsSkipsFirst(file, cmts) == IF Len(cmts) > 0 THEN Tail(cmts) ELSE file

\* writeComments(): f.writelines(comments) when there are comments; no file
\* is written otherwise.
writeComments(file, cmts) == IF Len(cmts) > 0 THEN cmts ELSE file

\* main, after the pool and the package writes: sql.writeComments()
WriteComments ==
    /\ mpc = "done" /\ epc = "comments"
    /\ commentsFile' = writeComments(commentsFile, comments)
    /\ flushes' = flushes + 1
    /\ epc' = "grants"
    /\ UNCHANGED comments
    /\ UNCHANGED <<tableVars, loaderVars, cleanVars, runVars, readVars, grantVars>>

Next ==
    \/ LoadRow
    \/ SnapshotTables
    \/ GenerateHistoryTables
    \/ StartPool
    \/ WorkerStart
    \/ \E i \in 1..Len(wpc) : HistCheck(i)
    \/ \E i \in 1..Len(wpc) : HistCreate(i)
    \/ \E i \in 1..Len(wpc) : HistRead(i)
    \/ \E i \in 1..Len(wpc) : HistHeader(i)
    \/ \E i \in 1..Len(wpc) : HistBody(i)
    \/ \E i \in 1..Len(wpc) : WorkerRest(i)
    \/ JoinPool
    \/ WriteComments

Spec == Init /\ [][Next]_vars

HasAuditColumns(t) ==
    \E c \in 1..Len(t.columns) : t.columns[c].field \in {"U_NAME", "U_DATE"}

HistoryKey(t) == SchemaTable(t.schema, "H_" \o t.name)

\* C7: in every run, audit columns are injected into a table only after that
\* table's history table has been derived, so the history table of a table
\* flagged for both audit and history never contains the injected audit
\* columns (user name / change date).
C7_AuditInjectedAfterHistory ==
    \A i \in 1..Len(tables) :
        LET t == tables[i].table
        IN  /\ HasAuditColumns(t) =>
                 /\ mpc \in {"pool", "done"}
                 /\ t.needshistory => KeyIndex(tables, HistoryKey(t)) # 0
            /\ t.ishistory =>
                 /\ ~HasAuditColumns(t)
                 /\ LET s == holdTables[KeyIndex(holdTables,
                                           SchemaTable(t.schema, t.sourcetable))].table
                    IN  [c \in 1..Len(s.columns) |-> s.columns[c].field]
                          = [c \in 1..Len(s.columns) |-> t.columns[4 + c].field]

C7_Witness ==
    /\ mpc = "done"
    /\ \E i \in 1..Len(tables) :
          LET t == tables[i].table
          IN  /\ t.needsaudit /\ t.needshistory /\ HasAuditColumns(t)
              /\ KeyIndex(tables, HistoryKey(t)) # 0
              /\ wpc[KeyIndex(tables, HistoryKey(t))] = "done"

\* C10: when several workers render tables of the same schema concurrently,
\* appends to that schema's package accumulator are serialized: under every
\* interleaving, once all workers have finished the accumulator holds the
\* header and the body of every procedure any worker generated for that
\* schema, each exactly once.
C10_NoLostAppend ==
    mpc = "done" =>
        \A g \in generated :
            /\ g.schema \in DOMAIN histPkg.map
            /\ LET acc == histPkg.objs[histPkg.map[g.schema]]
               IN  /\ Cardinality({k \in 1..Len(acc.header) : acc.header[k] = g.proc}) = 1
                   /\ Cardinality({k \in 1..Len(acc.body) : acc.body[k] = g.proc}) = 1

\* Position in the registry (the submission order of the pool) of the table
\* whose history procedure is proc.
ProcPos(proc) ==
    CHOOSE i \in 1..Len(tables) : ProcName(tables[i].table.name) = proc

InSubmissionOrder(procs) ==
    \A a, b \in 1..Len(procs) : a < b => ProcPos(procs[a]) < ProcPos(procs[b])

\* C11: for a fixed input, the order of the procedure headers and the order
\* of the procedure bodies inside each schema's package is the same in every
\* run, whatever the interleaving of the workers: it is the order in which
\* the tables were submitted, which is the order a one-thread run produces.
C11_PackageOrderDeterministic ==
    mpc = "done" =>
        \A k \in 1..Len(histPkg.objs) :
            /\ InSubmissionOrder(histPkg.objs[k].header)
            /\ InSubmissionOrder(histPkg.objs[k].body)

(***************************************************************************)
(* Claims on the identifiers and file names of one rendering (SpecRender)  *)
(***************************************************************************)
\* The index files written through the table's index counter: every index
\* file but the primary-key one, in the order written.
CountedIndexes == SelectSeq(art, LAMBDA f : f.dir = "INDEXES" /\ ~IsPKIndex(f))

ForeignKeys == SelectSeq(art, LAMBDA f : f.dir = "REF_CONSTRAINTS")

PairwiseDistinctNames(files) ==
    \A i, j \in 1..Len(files) : files[i].name = files[j].name => i = j

ExpectedSuffix(k) == IF k = 1 THEN "" ELSE ToString(k)

\* C12: within one table, after rendering any sequence of compound-index
\* clusters, indexed columns and foreign-key columns, all index identifiers
\* are pairwise distinct and all foreign-key constraint identifiers are
\* pairwise distinct; the index and FK counters increase by one per
\* occurrence, the first counted occurrence has no numeric suffix and the
\* k-th (k >= 2) has suffix k.
C12_CountersKeepIdentifiersDistinct ==
    tpc = "rendered" =>
        /\ PairwiseDistinctNames(SelectSeq(art, LAMBDA f : f.dir = "INDEXES"))
        /\ PairwiseDistinctNames(ForeignKeys)
        /\ \A k \in 1..Len(CountedIndexes) :
              CountedIndexes[k].name \in
                  { tbl.schema \o "." \o tbl.name \o kind \o ExpectedSuffix(k) :
                        kind \in {"_UI", "_NI", "_COMPOUND_UI", "_COMPOUND_NI"} }
        /\ \A k \in 1..Len(ForeignKeys) :
              ForeignKeys[k].name = tbl.name \o "_" \o ForeignKeys[k].fields[1]
                                        \o "_FK" \o ExpectedSuffix(k)
        /\ tbl.indexcount = 1 + Len(CountedIndexes)
        /\ tbl.fkcount = 1 + Len(ForeignKeys)

\* A rendering with a compound index followed by single-column indexes, and
\* with two foreign keys.
C12_Witness ==
    /\ tpc = "rendered"
    /\ Len(CountedIndexes) >= 3
    /\ \E k \in 1..Len(CountedIndexes) :
          CountedIndexes[k].name = tbl.schema \o "." \o tbl.name \o "_COMPOUND_NI"
    /\ \E k \in 1..Len(CountedIndexes) :
          CountedIndexes[k].name = tbl.schema \o "." \o tbl.name \o "_NI3"
    /\ Len(ForeignKeys) = 2

\* The 3-digit zero-padded decimal numeral of n (0 <= n <= 999).
ThreeDigits(n) ==
    Char(Digits, ((n \div 100) % 10) + 1) \o Char(Digits, ((n \div 10) % 10) + 1)
        \o Char(Digits, (n % 10) + 1)

StartsWith(str, prefix) ==
    Len(str) >= Len(prefix) /\ SubSeq(str, 1, Len(prefix)) = prefix

\* C13 as stated: every artifact file generated for a table (table script,
\* index, constraint, ref-constraint, sequence and trigger scripts) has a
\* file name that begins with the table's 3-digit zero-padded number.
C13_EveryFileNumbered ==
    tpc = "rendered" =>
        \A i \in 1..Len(art) : StartsWith(art[i].file, ThreeDigits(tbl.tableNumber))

\* C13 as amended: the index, constraint and ref-constraint files begin with
\* the table's 3-digit zero-padded number and an underscore; the table,
\* sequence and trigger files are named after the table, without the number.
C13_KeyFilesNumbered ==
    tpc = "rendered" =>
        \A i \in 1..Len(art) :
            /\ art[i].dir \in {"INDEXES", "CONSTRAINTS", "REF_CONSTRAINTS",
                               "TABLES", "SEQUENCES", "TRIGGERS"}
            /\ art[i].dir \in {"INDEXES", "CONSTRAINTS", "REF_CONSTRAINTS"} =>
                  StartsWith(art[i].file, ThreeDigits(tbl.tableNumber) \o "_")
            /\ art[i].dir \in {"TABLES", "SEQUENCES", "TRIGGERS"} =>
                  StartsWith(art[i].file, tbl.name)

\* A rendering of table number 12 that wrote numbered files (index,
\* constraint, ref-constraint) and unnumbered ones (table, trigger).
C13_Witness ==
    /\ tpc = "rendered"
    /\ tbl.tableNumber = 12
    /\ \A d \in {"INDEXES", "CONSTRAINTS", "REF_CONSTRAINTS", "TABLES",
                 "TRIGGERS"} : Files(art, d) # {}

(***************************************************************************)
(* The ALTER scanner (clean_script.py).  alterStatements is a dict keyed   *)
(* by the running index: a sequence of [index, table, constraint], where   *)
(* constraint is None until the 'constraint' key has been stored.          *)
(***************************************************************************)
alter_keywords == {"ALTER", "TABLE", "ADD", "CONSTRAINT"}

HasIndex(stmts, index) == \E k \in 1..Len(stmts) : stmts[k].index = index

\* alterStatements.pop(index): a KeyError when the index is not a key.
PopIndex(st) ==
    IF HasIndex(st.alterStatements, st.index)
    THEN [st EXCEPT !.alterStatements = SelectSeq(@, LAMBDA e : e.index # st.index)]
    ELSE [st EXCEPT !.raised = TRUE]

\* "Reset variables to continue looking for additional ALTER statements"
ResetAlter(st) ==
    [st EXCEPT !.isAlter = FALSE, !.isAdd = FALSE, !.constraint = FALSE,
               !.index = @ + 1]

\* The elif chain on the word inside `elif isAlter`.
AlterBranch(st, word) ==
    IF word = "ADD" THEN [st EXCEPT !.isAdd = TRUE]
    ELSE IF word = "CONSTRAINT" THEN [st EXCEPT !.constraint = TRUE]
    ELSE IF word \notin alter_keywords /\ ~HasIndex(st.alterStatements, st.index)
    THEN [st EXCEPT !.alterStatements =
                       Append(@, [index |-> st.index, table |-> word,
                                  constraint |-> None])]
    ELSE IF word \notin alter_keywords
    THEN LET named == [st EXCEPT !.alterStatements =
                         [k \in 1..Len(@) |->
                            IF @[k].index = st.index
                            THEN [@[k] EXCEPT !.constraint = word] ELSE @[k]]]
         IN  ResetAlter(IF ~st.isAdd \/ ~st.constraint THEN PopIndex(named)
                        ELSE named)
    ELSE st

\* One iteration of the word loop of parseSqlAltersConstraint.
AlterWord(st, word) ==
    IF st.raised THEN st
    ELSE IF word = "ALTER" THEN [st EXCEPT !.isAlter = TRUE]
    ELSE IF st.isAlter
    THEN LET st1 == AlterBranch(st, word)
         IN  IF EndsStatement(word) /\ st1.isAlter /\ ~st1.raised
             THEN ResetAlter(IF ~st1.isAdd \/ ~st1.constraint THEN PopIndex(st1)
                             ELSE st1)
             ELSE st1
    ELSE st

RECURSIVE AlterWords(_, _, _)
AlterWords(st, ws, i) ==
    IF i > Len(ws) THEN st
    ELSE AlterWords(AlterWord(st, ws[i]), ws, i + 1)

\* The output loop: alterStatements[i]['constraint'] is a KeyError for an
\* entry that never got its constraint name.
RECURSIVE AlterDrops(_, _, _)
AlterDrops(out, stmts, i) ==
    IF i > Len(stmts) \/ out.raised THEN out
    ELSE IF stmts[i].constraint = None THEN [out EXCEPT !.raised = TRUE]
    ELSE AlterDrops([out EXCEPT !.outList =
                        Append(@, "ALTER TABLE " \o stmts[i].table \o "\n" \o tab
                                    \o "DROP CONSTRAINT " \o stmts[i].constraint
                                    \o ";\n/")],
                    stmts, i + 1)

\* parseSqlAltersConstraint(fileobj) on a file holding filecontent:
\* [outList, raised]
parseSqlAltersConstraint(filecontent) ==
    LET st == AlterWords([alterStatements |-> <<>>, index |-> 0, isAlter |-> FALSE,
                          isAdd |-> FALSE, constraint |-> FALSE, raised |-> FALSE],
                         Split(formatForParsing(filecontent)), 1)
    IN  IF st.raised THEN [outList |-> <<>>, raised |-> TRUE]
        ELSE AlterDrops([outList |-> <<>>, raised |-> FALSE], st.alterStatements, 1)

(***************************************************************************)
(* SpecScan: a script file is put together word by word and handed to one  *)
(* of the two scanners.                                                    *)
(***************************************************************************)
TokenPool == {"ALTER", "table", "ADD", "CONSTRAINT", "create", "PK1", "(F1);", ";"}

RECURSIVE JoinLines(_, _)
JoinLines(ws, i) ==
    IF i > Len(ws) THEN "" ELSE ws[i] \o "\n" \o JoinLines(ws, i + 1)

InitScan ==
    /\ src = NoTable /\ script = "" /\ drops = <<>> /\ packages = <<>>
    /\ cpc = "input" /\ tokens = <<>> /\ outdir = <<>> /\ scanned = 0
    /\ IdleTable /\ IdleLoader /\ IdleRun /\ IdleRead /\ IdleGrant /\ IdleFlush

AddToken ==
    /\ cpc = "input"
    /\ Len(tokens) < MaxTokens
    /\ \E w \in TokenPool : tokens' = Append(tokens, w)
    /\ script' = JoinLines(tokens', 1)
    /\ UNCHANGED <<src, drops, packages, cpc, outdir, scanned>>
    /\ UNCHANGED <<tableVars, loaderVars, runVars, readVars, grantVars, flushVars>>

\* alters = parseSqlAltersConstraint(obj)
ScanAlters ==
    /\ cpc = "input"
    /\ \E r \in {parseSqlAltersConstraint(script)} :
          /\ drops' = r.outList
          /\ cpc' = IF r.raised THEN "alters failed" ELSE "alters parsed"
    /\ UNCHANGED <<src, script, packages, tokens, outdir, scanned>>
    /\ UNCHANGED <<tableVars, loaderVars, runVars, readVars, grantVars, flushVars>>

\* creates = parseSqlCreates(obj)
ScanCreates ==
    /\ cpc = "input"
    /\ \E r \in {parseSqlCreates(script, packages)} :
          /\ drops' = r.outList
          /\ packages' = r.packages
          /\ cpc' = IF r.raised THEN "creates failed" ELSE "creates parsed"
    /\ UNCHANGED <<src, script, tokens, outdir, scanned>>
    /\ UNCHANGED <<tableVars, loaderVars, runVars, readVars, grantVars, flushVars>>

NextScan ==
    \/ AddToken
    \/ ScanAlters
    \/ ScanCreates

SpecScan == InitScan /\ [][NextScan]_vars

HasToken(w) == \E i \in 1..Len(tokens) : tokens[i] = w

\* C14: for every input token sequence both DDL-reversal scanners return
\* normally with a list of drop lines; a statement that never closes with a
\* valid name, or an ALTER that never sees both ADD and CONSTRAINT, has its
\* capture discarded, contributes no drop line and raises no error.
C14_ScannersReturnNormally ==
    /\ cpc \notin {"alters failed", "creates failed"}
    /\ (cpc = "alters parsed" /\ ~(HasToken("ADD") /\ HasToken("CONSTRAINT"))) =>
          drops = <<>>
    /\ (cpc = "creates parsed" /\ ~HasToken("create")) =>
          drops = <<>>

\* The discarding part alone: it holds wherever the scanner returns.
C14_DiscardedWhenReturned ==
    /\ (cpc = "alters parsed" /\ ~(HasToken("ADD") /\ HasToken("CONSTRAINT"))) =>
          drops = <<>>
    /\ (cpc = "creates parsed" /\ ~HasToken("create")) =>
          drops = <<>>

(***************************************************************************)
(* SpecSweep: package scripts are placed under PACKAGES and                *)
(* PACKAGE_BODIES and genCleanScript sweeps the two directories, handing   *)
(* every file to parseSqlCreates with the module's packages list.          *)
(***************************************************************************)
MaxFiles == 2   \* files in one directory of the output directory (SpecSweep)

\* The header / body file writeHistoryPackage writes for a schema.
HistoryPackageFile(schema, isBody, procs) ==
    LET app_account == SplitOwner(Upper(schema))
        name        == schema \o "." \o app_account \o "_HISTORY"
        Procs[i \in 0..Len(procs)] ==
            IF i = 0 THEN "" ELSE Procs[i - 1] \o procs[i] \o "\n\n"
    IN  "prompt -- Adding " \o name \o " package"
          \o (IF isBody THEN " body" ELSE "") \o "\n\n"
          \o "CREATE OR REPLACE PACKAGE " \o (IF isBody THEN "BODY " ELSE "")
          \o name \o " AS\n\n"
          \o Procs[Len(procs)]
          \o "END " \o app_account \o "_HISTORY;\n/\n\n"
          \o "show errors package " \o name

\* Script files found in the two package directories: the two files of
\* writeHistoryPackage and hand-written package scripts.
HistoryHeaderFile == HistoryPackageFile("A_OWNER", FALSE, <<"P_H_T_WRITE;">>)
HistoryBodyFile   == HistoryPackageFile("A_OWNER", TRUE, <<"P_H_T_WRITE;">>)
LowerBodyFile     == "create package body a_owner.a_history is\nend;\n/"
BothInOneFile     == "CREATE PACKAGE X.P AS\nEND;\n/\nCREATE PACKAGE BODY X.P AS\nEND;\n/"
NonEditionableFile == "CREATE OR REPLACE NONEDITIONABLE PACKAGE X.Q AS\nEND;\n/"

FilePool ==
    {HistoryHeaderFile, HistoryBodyFile, LowerBodyFile, BothInOneFile,
     NonEditionableFile}

\* The directories of clean_order that hold package scripts, in its order.
PackageDirs == <<"PACKAGES", "PACKAGE_BODIES">>

InitSweep ==
    /\ src = NoTable /\ script = "" /\ drops = <<>> /\ packages = <<>>
    /\ cpc = "input" /\ tokens = <<>>
    /\ outdir = [d \in {"PACKAGES", "PACKAGE_BODIES"} |-> <<>>]
    /\ scanned = 0
    /\ IdleTable /\ IdleLoader /\ IdleRun /\ IdleRead /\ IdleGrant /\ IdleFlush

\* A script file is found in one of the two directories.
AddFile ==
    /\ cpc = "input"
    /\ \E d \in DOMAIN outdir, f \in FilePool :
          /\ Len(outdir[d]) < MaxFiles
          /\ outdir' = [outdir EXCEPT ![d] = Append(@, f)]
    /\ UNCHANGED <<src, script, drops, packages, cpc, tokens, scanned>>
    /\ UNCHANGED <<tableVars, loaderVars, runVars, readVars, grantVars, flushVars>>

\* genCleanScript reaches the PACKAGES item of clean_order.
StartSweep ==
    /\ cpc = "input"
    /\ cpc' = PackageDirs[1]
    /\ scanned' = 0
    /\ UNCHANGED <<src, script, drops, packages, tokens, outdir>>
    /\ UNCHANGED <<tableVars, loaderVars, runVars, readVars, grantVars, flushVars>>

\* creates = parseSqlCreates(obj) for the next file of the directory; its
\* drop lines are written to the clean script.
SweepFile ==
    /\ cpc \in DOMAIN outdir
    /\ scanned < Len(outdir[cpc])
    /\ \E r \in {parseSqlCreates(outdir[cpc][scanned + 1], packages)} :
          /\ script' = outdir[cpc][scanned + 1]
          /\ drops' = IF r.raised THEN drops ELSE drops \o r.outList
          /\ packages' = r.packages
          /\ scanned' = scanned + 1
          /\ cpc' = IF r.raised THEN "sweep failed" ELSE cpc
    /\ UNCHANGED <<src, tokens, outdir>>
    /\ UNCHANGED <<tableVars, loaderVars, runVars, readVars, grantVars, flushVars>>

\* The directory is exhausted: the next item of clean_order.
NextDirectory ==
    /\ cpc \in DOMAIN outdir
    /\ scanned = Len(outdir[cpc])
    /\ cpc' = IF cpc = PackageDirs[1] THEN PackageDirs[2] ELSE "swept"
    /\ scanned' = 0
    /\ UNCHANGED <<src, script, drops, packages, tokens, outdir>>
    /\ UNCHANGED <<tableVars, loaderVars, runVars, readVars, grantVars, flushVars>>

NextSweep ==
    \/ AddFile
    \/ StartSweep
    \/ SweepFile
    \/ NextDirectory

SpecSweep == InitSweep /\ [][NextSweep]_vars

\* The package a script file of the pool creates.
CreatedPackage(file) ==
    IF file \in {HistoryHeaderFile, HistoryBodyFile, LowerBodyFile}
    THEN "A_OWNER.A_HISTORY"
    ELSE IF file = BothInOneFile THEN "X.P" ELSE "X.Q"

PackagesPresent ==
    UNION {{CreatedPackage(outdir[d][i]) : i \in 1..Len(outdir[d])} : d \in DOMAIN outdir}

DropPackageLines(name) ==
    {k \in 1..Len(drops) : drops[k] = "DROP PACKAGE " \o name \o ";\n"}

\* C15: once the package directories have been handed to the scanner, in
\* any file order, the sweep has completed and every distinct package name
\* created under PACKAGES, PACKAGE_BODIES or both has exactly one
\* DROP PACKAGE line.
C15_OneDropPerPackage ==
    cpc \in {"swept", "sweep failed"} =>
        /\ cpc = "swept"
        /\ \A name \in PackagesPresent : Cardinality(DropPackageLines(name)) = 1

\* C15, restricted to sweeps in which no parseSqlCreates call raised.
C15_OneDropWhenSwept ==
    cpc = "swept" =>
        \A name \in PackagesPresent : Cardinality(DropPackageLines(name)) = 1

\* C15: a completed sweep that met the same package under both directories.
C15_Witness ==
    /\ cpc = "swept"
    /\ HistoryHeaderFile \in {outdir["PACKAGES"][i] : i \in 1..Len(outdir["PACKAGES"])}
    /\ \E i \in 1..Len(outdir["PACKAGE_BODIES"]) :
          outdir["PACKAGE_BODIES"][i] \in {HistoryBodyFile, LowerBodyFile}
    /\ Cardinality(DropPackageLines("A_OWNER.A_HISTORY")) = 1

\* C16: writeLoaderPackage returns exactly the schemas for which a package
\* header and body were written, each schema once.
C16_ReturnsWrittenSchemas ==
    lpkg.called =>
        /\ {lpkg.schemas[i] : i \in 1..Len(lpkg.schemas)} = lpkg.files
        /\ Len(lpkg.schemas) = Cardinality(lpkg.files)

\* C16, the part that holds: every schema with a written package is
\* returned, and no schema is returned twice.
C16_WrittenSchemasReturnedOnce ==
    lpkg.called =>
        /\ lpkg.files \subseteq {lpkg.schemas[i] : i \in 1..Len(lpkg.schemas)}
        /\ \A i, j \in 1..Len(lpkg.schemas) :
              lpkg.schemas[i] = lpkg.schemas[j] => i = j

(***************************************************************************)
(* SpecRead: csvRead over the rows of a schema file.                       *)
(***************************************************************************)
MaxCsvRows == 3   \* rows of the schema file after its header row (SpecRead)

\* The keys of default_schema_row, in the order of the dict (file order).
schema_keys ==
    << "schema", "table", "field", "type", "size", "units", "not_null",
       "primary_key", "default", "index", "sequence_start", "pop_by_trigger",
       "invisible", "virtual", "virtual_expr", "check_constraint",
       "lob_deduplication", "lob_compression", "lob_caching", "lob_logging",
       "fk_to_table", "fk_to_field", "gen_audit_columns", "gen_history_tables",
       "loader_package", "loader_parent_table", "table_comment",
       "column_comment" >>

\* copy.deepcopy(default_schema_row), as a dict
SchemaRowDict == [k \in {schema_keys[i] : i \in 1..Len(schema_keys)} |-> ""]

\* str.strip()
Strip(s) == LStrip(RStrip(s, WhiteSpace), WhiteSpace)

\* The loop "for key in d.keys()" of convertToDict from key number index;
\* csvrow[index] beyond the row is an IndexError.
RECURSIVE ConvertLoop(_, _, _)
ConvertLoop(d, csvrow, index) ==
    IF index > Len(schema_keys) THEN [d |-> d, raised |-> FALSE]
    ELSE IF index > Len(csvrow) THEN [d |-> d, raised |-> TRUE]
    ELSE ConvertLoop([d EXCEPT ![schema_keys[index]] = Strip(csvrow[index])],
                     csvrow, index + 1)

\* convertToDict(csvrow, False) with missing cells left at their default
convertToDictPadded(csvrow) ==
    [ConvertLoop(SchemaRowDict, csvrow, 1) EXCEPT !.raised = FALSE]

\* convertToDict(csvrow, False): [d, raised]
convertToDict(csvrow) == ConvertLoop(SchemaRowDict, csvrow, 1)

\* A row of n cells whose first cell is first; pad puts white space around
\* the other cells.
CsvRow(n, first, pad) ==
    [i \in 1..n |-> IF i = 1 THEN first
                    ELSE IF pad THEN " v" \o ToString(i) \o "\t"
                    ELSE "v" \o ToString(i)]

CsvRowPool ==
    { CsvRow(28, "S1", FALSE), CsvRow(28, " S2 ", TRUE), CsvRow(29, "S3", FALSE),
      CsvRow(27, "S4", FALSE), CsvRow(1, "S5", FALSE),
      CsvRow(28, "", FALSE), CsvRow(3, "", FALSE), CsvRow(28, "Schema", FALSE) }

InitRead ==
    /\ csvfile = << CsvRow(28, "Schema", FALSE) >>
    /\ rd = 0 /\ firstrow = TRUE /\ rpc = "input"
    /\ IdleTable /\ IdleLoader /\ IdleClean /\ IdleRun /\ IdleGrant /\ IdleFlush

runRest ==
    <<tables, holdTables, mainCount, mpc, nextRow, usePackage, poolSize, wpc,
      wlocal, taken, histPkg, generated>>

\* The file holds one more row.
AddCsvRow ==
    /\ rpc = "input"
    /\ Len(csvfile) < MaxCsvRows + 1
    /\ \E r \in CsvRowPool : csvfile' = Append(csvfile, r)
    /\ UNCHANGED <<rd, firstrow, rpc, todo, runRest>>
    /\ UNCHANGED <<tableVars, loaderVars, cleanVars, grantVars, flushVars>>

\* csvRead(csvfile) opens the file.
OpenCsv ==
    /\ rpc = "input"
    /\ rpc' = "reading"
    /\ UNCHANGED <<csvfile, rd, firstrow, todo, runRest>>
    /\ UNCHANGED <<tableVars, loaderVars, cleanVars, grantVars, flushVars>>

\* One iteration of "for row in reader".
ReadRow ==
    /\ rpc = "reading"
    /\ rd < Len(csvfile)
    /\ rd' = rd + 1
    /\ LET row == csvfile[rd + 1]
       IN  IF ~firstrow /\ row[1] \notin {"Schema", ""}
           THEN \E r \in {convertToDict(row)} :
                   /\ todo' = IF r.raised THEN todo ELSE Append(todo, r.d)
                   /\ rpc' = IF r.raised THEN "raised" ELSE rpc
                   /\ UNCHANGED firstrow
           ELSE /\ firstrow' = FALSE
                /\ UNCHANGED <<todo, rpc>>
    /\ UNCHANGED <<csvfile, runRest>>
    /\ UNCHANGED <<tableVars, loaderVars, cleanVars, grantVars, flushVars>>

\* The reader is exhausted: csvRead returns.
CloseCsv ==
    /\ rpc = "reading"
    /\ rd = Len(csvfile)
    /\ rpc' = "done"
    /\ UNCHANGED <<csvfile, rd, firstrow, todo, runRest>>
    /\ UNCHANGED <<tableVars, loaderVars, cleanVars, grantVars, flushVars>>

NextRead ==
    \/ AddCsvRow
    \/ OpenCsv
    \/ ReadRow
    \/ CloseCsv

SpecRead == InitRead /\ [][NextRead]_vars

\* Rows handled so far that csvRead hands to convertToDict, those among
\* them with fewer cells than the schema has fields, and the others.
HandedRows == {j \in 2..rd : csvfile[j][1] \notin {"Schema", ""}}
ShortRows  == {j \in HandedRows : Len(csvfile[j]) < Len(schema_keys)}
FullRows   == HandedRows \ ShortRows

\* The k-th full row, in file order.
NthFullRow(k) == CHOOSE j \in FullRows : Cardinality({i \in FullRows : i < j}) = k - 1

NoPrimaryKey ==
    \A i \in 1..Len(chain) : \A c \in 1..Len(chain[i].columns) :
        ~chain[i].columns[c].primarykey

\* C18: when processTable has run on a loader table without a primary key,
\* it has completed and the table's CREATE TABLE script is among the
\* artifacts: only the loader procedure is missing.
C18_OnlyLoaderProcedureSkipped ==
    (tpc \in {"rendered", "aborted"} /\ NoPrimaryKey) =>
        /\ tpc = "rendered"
        /\ \E i \in 1..Len(art) : art[i].dir = "TABLES"
        /\ loader[chain[1].schema].header = <<>>

\* C18, the part that holds: no loader procedure is recorded for the table,
\* and main still reaches writeLoaderPackage.
C18_LoaderProcedureSkipped ==
    (tpc \in {"rendered", "aborted"} /\ NoPrimaryKey) =>
        /\ loader[chain[1].schema].header = <<>>
        /\ ((ENABLED WriteLoaderPackage) \/ lpkg.called)

(***************************************************************************)
(* SpecNames: a schema name is put together and the names the program      *)
(* derives from it are computed: the table's tablespace, the table grant   *)
(* and the execute grants on the history and loader packages.              *)
(***************************************************************************)
MaxParts == 3   \* parts a schema name is put together from (SpecNames)

NameParts == {"APP", "app", "_OWNER", "_owner", "_X"}

\* createGrant(schema, tablename, level): the dict appended to addGrants
createGrant(schema, tablename, level) ==
    LET app_account == SplitOwner(Upper(schema))
    IN  [schema |-> schema, table |-> tablename, user |-> app_account,
         insert |-> level[1], update |-> level[2], delete |-> level[3]]

\* createGrantHistory(schema): the dict appended to addGrantsExec
createGrantHistory(schema) ==
    LET app_account == SplitOwner(Upper(schema))
    IN  [schema |-> schema, proc |-> app_account \o "_HISTORY", user |-> app_account]

\* createGrantLoader(schema): the tuple appended to addGrantsExec, by position
createGrantLoader(schema) ==
    LET app_account == SplitOwner(Upper(schema))
    IN  [schema |-> schema, proc |-> app_account \o "_LOADER", user |-> app_account]

InitNames ==
    /\ sname = "" /\ addGrants = <<>> /\ addGrantsExec = <<>> /\ npc = "input"
    /\ script = ""
    /\ src = NoTable /\ drops = <<>> /\ packages = <<>> /\ cpc = "idle"
    /\ tokens = <<>> /\ outdir = <<>> /\ scanned = 0
    /\ tbl = NoTable /\ hist = NoTable /\ tpc = "idle" /\ raised = FALSE
    /\ cleanCalls = 0 /\ auditCalls = 0 /\ art = <<>> /\ lastIdx = <<>>
    /\ IdleLoader /\ IdleRun /\ IdleRead /\ IdleFlush

\* The number of parts of NameParts a name was put together from: every
\* part holds exactly one of the characters A, a and _.
PartCount(s) == Cardinality({i \in 1..Len(s) : Char(s, i) \in {"A", "a", "_"}})

\* The schema name grows by one part.
AddPart ==
    /\ npc = "input"
    /\ PartCount(sname) < MaxParts
    /\ \E part \in NameParts : sname' = sname \o part
    /\ UNCHANGED <<addGrants, addGrantsExec, npc>>
    /\ UNCHANGED <<tableVars, loaderVars, cleanVars, runVars, readVars, flushVars>>

\* The table of the schema is created and rendered (createGrant), and the
\* packages of the schema are written (createGrantHistory,
\* createGrantLoader after writeHistoryPackage and writeLoaderPackage).
DeriveNames ==
    /\ npc = "input"
    /\ sname # ""
    /\ tbl' = Table(sname, "T", "", "", "", 1, FALSE, "")
    /\ addGrants' = << createGrant(sname, "T", <<"X", "X", "X">>) >>
    /\ addGrantsExec' = << createGrantHistory(sname), createGrantLoader(sname) >>
    /\ script' = HistoryPackageFile(sname, FALSE, <<"P_H_T_WRITE;">>)
    /\ npc' = "derived"
    /\ UNCHANGED <<sname, src, drops, packages, cpc, tokens, outdir, scanned>>
    /\ UNCHANGED <<hist, tpc, raised, cleanCalls, auditCalls, art, lastIdx>>
    /\ UNCHANGED <<loaderVars, runVars, readVars, flushVars>>

NextNames ==
    \/ AddPart
    \/ DeriveNames

SpecNames == InitNames /\ [][NextNames]_vars

\* s.endswith(suffix)
EndsWith(s, suffix) ==
    Len(s) >= Len(suffix) /\ SubSeq(s, Len(s) - Len(suffix) + 1, Len(s)) = suffix

\* The schema name with a trailing '_OWNER' removed, letter case left
\* aside (the name is compared in upper case).
WithoutOwnerSuffix(s) ==
    LET u == Upper(s)
    IN  IF EndsWith(u, "_OWNER") THEN SubSeq(u, 1, Len(u) - Len("_OWNER")) ELSE u

\* The account names the program has derived from sname.
DerivedNames ==
    {tbl.tablespace, addGrants[1].user, addGrantsExec[1].user, addGrantsExec[2].user}

\* C19: for every schema name, the derived tablespace/account name is the
\* schema name without a trailing '_OWNER', and that one name is the
\* table's tablespace, the grantee of the grants and the prefix of the
\* history and loader package names.
C19_TrailingOwnerRemoved ==
    npc = "derived" =>
        /\ DerivedNames = {WithoutOwnerSuffix(sname)}
        /\ addGrantsExec[1].proc = WithoutOwnerSuffix(sname) \o "_HISTORY"
        /\ addGrantsExec[2].proc = WithoutOwnerSuffix(sname) \o "_LOADER"

\* C19, the part that holds: one name is used everywhere, and it is the
\* upper-cased schema name up to its first '_OWNER'.
C19_OneDerivedName ==
    npc = "derived" =>
        /\ DerivedNames = {SplitOwner(Upper(sname))}
        /\ addGrantsExec[1].proc = SplitOwner(Upper(sname)) \o "_HISTORY"
        /\ addGrantsExec[2].proc = SplitOwner(Upper(sname)) \o "_LOADER"
        /\ StartsWith(script, "prompt -- Adding " \o sname \o "."
                                \o SplitOwner(Upper(sname)) \o "_HISTORY package")

\* The tables whose rendering has run to its end.
RenderedTables == {i \in 1..Len(wpc) : wpc[i] = "done"}

\* The positions of a line in the comments file.
FileLines(line) == {k \in 1..Len(commentsFile) : commentsFile[k] = line}

\* The number of comments the rendered tables carry.
RECURSIVE CommentCount(_)
CommentCount(ts) ==
    IF ts = {} THEN 0
    ELSE LET i == CHOOSE x \in ts : TRUE
             t == tables[i].table
         IN  (IF t.comment # "" THEN 1 ELSE 0)
               + Cardinality({c \in 1..Len(t.columns) : t.columns[c].comment # None})
               + CommentCount(ts \ {i})

\* C20: in a run the comment accumulator is flushed at most once and, once
\* main has passed the flush, exactly once; the flush happens only after
\* every worker has finished; no comment is added after it; the flushed file
\* holds every comment added during rendering exactly once.
C20_CommentsFlushedOnceAfterWorkers ==
    /\ flushes <= 1
    /\ epc = "grants" => flushes = 1
    /\ flushes = 1 =>
          /\ mpc = "done"
          /\ \A i \in 1..Len(wpc) : wpc[i] \in {"done", "failed"}
          /\ commentsFile = comments
          /\ Len(commentsFile) = CommentCount(RenderedTables)
          /\ \A i \in RenderedTables :
                LET t == tables[i].table
                IN  /\ t.comment # "" =>
                          Cardinality(FileLines("\nCOMMENT ON TABLE " \o t.schema \o "."
                              \o t.name \o " IS '" \o t.comment \o "';\n")) = 1
                    /\ \A c \in 1..Len(t.columns) :
                          t.columns[c].comment # None =>
                             Cardinality(FileLines("COMMENT ON COLUMN " \o t.schema
                                 \o "." \o t.name \o "." \o t.columns[c].field \o " IS '"
                                 \o t.columns[c].comment \o "';\n")) = 1

\* C20: a flush after two workers have added table and column comments.
C20_Witness ==
    /\ flushes = 1
    /\ Cardinality(RenderedTables) >= 2
    /\ \E k \in 1..Len(commentsFile) :
          commentsFile[k] = "\nCOMMENT ON TABLE APP_OWNER.T2 IS 'Table 2';\n"
    /\ \E k \in 1..Len(commentsFile) :
          StartsWith(commentsFile[k], "COMMENT ON COLUMN APP_OWNER.T1.")

(***************************************************************************)
(* The single-column primary-key path of processColumn against cluster     *)
(* tags (schema_generator.py processColumn, table.py addColumn).           *)
(***************************************************************************)
\* The primary-key index and constraint files that list only the column at pos.
SinglePKFiles(pos) ==
    {i \in 1..Len(art) : /\ IsPKIndex(art[i]) \/ IsPKConstraint(art[i])
                         /\ art[i].fields = <<tbl.columns[pos].field>>}

\* The column at pos is a member of a cluster tag with 2 or more members.
InValidCluster(pos) ==
    \E k \in 1..Len(ValidClusters(tbl.columns)) :
        \E j \in 1..Len(ValidClusters(tbl.columns)[k].cols) :
            ValidClusters(tbl.columns)[k].cols[j] = pos

\* The compound files (2 or more fields) that list the column at pos.
CompoundFiles(pos) ==
    {i \in 1..Len(art) : /\ Len(art[i].fields) >= 2
                         /\ \E j \in 1..Len(art[i].fields) :
                                art[i].fields[j] = tbl.columns[pos].field}

\* C21 as stated: for a column flagged primary key in a table that also
\* accumulates a compound key under a cluster tag with at least 2 members, no
\* single-column primary-key index or constraint is generated for that
\* column; the compound path is rendered instead.
C21_ClusteredKeySkipsSinglePK ==
    tpc = "rendered" =>
        \A i \in 1..Len(tbl.primarykeys) :
            InValidCluster(tbl.primarykeys[i]) =>
                /\ SinglePKFiles(tbl.primarykeys[i]) = {}
                /\ CompoundFiles(tbl.primarykeys[i]) # {}

\* C21 amended: the single-column primary-key index and constraint of a
\* primary-key column are skipped exactly when the table has 2 or more
\* primary-key columns; where the CREATE TABLE file of a table with exactly
\* one primary-key column was written, that column has its single-column
\* index and constraint, cluster member or not.
C21_CompoundPKSkipsSinglePK ==
    Rendered =>
        \A i \in 1..Len(tbl.primarykeys) :
            /\ Len(tbl.primarykeys) >= 2 => SinglePKFiles(tbl.primarykeys[i]) = {}
            /\ (Files(art, "TABLES") # {} /\ Len(tbl.primarykeys) = 1) =>
                   \E a, b \in SinglePKFiles(tbl.primarykeys[i]) :
                       IsPKIndex(art[a]) /\ IsPKConstraint(art[b])

\* C21 witness: a rendered table whose only primary-key column is a member
\* of a 2-member cluster has both the single-column primary-key files and
\* the compound index of the cluster.
C21_Witness ==
    /\ tpc = "rendered"
    /\ Len(tbl.primarykeys) = 1
    /\ InValidCluster(tbl.primarykeys[1])
    /\ SinglePKFiles(tbl.primarykeys[1]) # {}
    /\ CompoundFiles(tbl.primarykeys[1]) # {}

(***************************************************************************)
(* Captures of the ALTER scanner against its drop blocks                   *)
(* (clean_script.py parseSqlAltersConstraint).                             *)
(***************************************************************************)
\* The scanner state after the word loop over the script.
AlterScan ==
    AlterWords([alterStatements |-> <<>>, index |-> 0, isAlter |-> FALSE,
                isAdd |-> FALSE, constraint |-> FALSE, raised |-> FALSE],
               Split(formatForParsing(script)), 1)

\* The captures whose statement closed with ADD and CONSTRAINT seen: the
\* entries left in alterStatements under an index the scanner has moved past.
ValidCaptures ==
    SelectSeq(AlterScan.alterStatements, LAMBDA e : e.index < AlterScan.index)

\* C22: the ALTER scanner emits a drop block only for a valid capture: a
\* statement that closes, by its second non-keyword token or by a terminator
\* token, while ADD or CONSTRAINT has not been seen is discarded, and each
\* valid capture yields exactly one 'ALTER TABLE <table> DROP CONSTRAINT
\* <name>;' block naming its first non-keyword token as table and its second
\* as constraint.
C22_OneBlockPerValidCapture ==
    cpc \in {"alters parsed", "alters failed"} =>
        /\ Len(drops) = Len(ValidCaptures)
        /\ \A k \in 1..Len(ValidCaptures) :
              /\ ValidCaptures[k].constraint # None
              /\ drops[k] = "ALTER TABLE " \o ValidCaptures[k].table \o "\n" \o tab
                              \o "DROP CONSTRAINT " \o ValidCaptures[k].constraint
                              \o ";\n/"
        /\ ~(HasToken("ADD") /\ HasToken("CONSTRAINT")) => drops = <<>>

\* The part that holds: where the scanner returns, its blocks are exactly
\* the blocks of the valid captures, in order.
C22_BlocksOfValidCapturesWhenReturned ==
    cpc = "alters parsed" =>
        /\ Len(drops) = Len(ValidCaptures)
        /\ \A k \in 1..Len(ValidCaptures) :
              /\ ValidCaptures[k].constraint # None
              /\ drops[k] = "ALTER TABLE " \o ValidCaptures[k].table \o "\n" \o tab
                              \o "DROP CONSTRAINT " \o ValidCaptures[k].constraint
                              \o ";\n/"

(***************************************************************************)
(* Terminator tokens in the CREATE scanner (clean_script.py                *)
(* parseSqlCreates).                                                       *)
(***************************************************************************)
\* The scanner state after the word loop over the script.
CreateScan ==
    ScanWords([isCreate |-> FALSE, createType |-> "", createStatements |-> <<>>],
              Split(formatForParsing(script)), 1)

\* The script holds no word a statement could name its object with: every
\* word is CREATE, a type keyword or a bare terminator.
NoNameToken == \A i \in 1..Len(tokens) : tokens[i] \in {"create", "table", ";"}

\* C23: in the CREATE scanner a token ending in ';' or '/' that is reached
\* inside a CREATE statement before any object name was captured sends the
\* scanner back to scanning without recording a capture, so an incomplete
\* CREATE statement produces no drop line.
C23_TerminatorRecordsNoCapture ==
    cpc \in {"creates parsed", "creates failed"} =>
        /\ \A k \in 1..Len(CreateScan.createStatements) :
              ~EndsStatement(CreateScan.createStatements[k][2])
        /\ NoNameToken => (cpc = "creates parsed" /\ drops = <<>>)

\* What the code does instead: a terminator reached inside a CREATE
\* statement is itself recorded as the object name, so every CREATE that is
\* followed by a word outside the keyword lists leaves a capture.
C23_TerminatorRecordedAsName ==
    cpc \in {"creates parsed", "creates failed"} =>
        \A i \in 1..Len(tokens) :
            (i > 1 /\ tokens[i] = ";" /\ tokens[i - 1] \in {"create", "table"}
                   /\ (\E j \in 1..(i - 1) : tokens[j] = "create")
                   /\ (\A m \in 1..(i - 1) : tokens[m] \in {"create", "table"})) =>
                /\ Len(CreateScan.createStatements) >= 1
                /\ CreateScan.createStatements[1][2] = ";"

(***************************************************************************)
(* The parent call of a load procedure against the columns of the whole    *)
(* chain (sql_script.py addInsertUpdateToLoaderPackage).                   *)
(***************************************************************************)
\* The argument the parameter loop forms for a column.
ArgOf(col) ==
    "p_" \o (IF col.primarykey THEN "io" ELSE "in") \o "_" \o Lower(Upper(col.field))

\* The arguments of the collected columns of the tables of the chain at the
\* positions in ps, in chain order.
ChainArgs(ps) ==
    LET cols == SelectSeq(CollectColumns(chain, 1, 1), LAMBDA e : e.at[1] \in ps)
    IN  [i \in 1..Len(cols) |-> ArgOf(cols[i].col)]

\* The body of the load procedure generated last.
LastBody == loader[chain[1].schema].body[Len(loader[chain[1].schema].body)]

InArgs(a, args) == \E k \in 1..Len(args) : args[k] = a

\* A table -> parent -> grandparent chain whose procedure was generated and
\* whose parent call lacks an argument of the parent's own columns.
GrandparentChainLosesParentColumns ==
    /\ lpc = "done" /\ Len(chain) = 3 /\ ChainArgs({1}) # <<>>
    /\ \E i \in 1..Len(ChainArgs({2})) :
          \A k \in 1..Len(LastBody.load_parents[1].args) :
              LastBody.load_parents[1].args[k] # ChainArgs({2})[i]

\* C24: for a loader parent chain of any depth the load procedure of the
\* table calls the load procedure of its immediate parent exactly once,
\* before its own UPDATE/INSERT, and the call passes an argument for every
\* column contributed by every ancestor table of the chain.
C24_ParentCallPassesEveryAncestorColumn ==
    (lpc = "done" /\ Len(chain) >= 2) =>
        /\ Len(LastBody.load_parents) = 1
        /\ LastBody.load_parents[1].call = "P_LOAD_" \o Upper(chain[2].name)
        /\ \A i \in 1..Len(ChainArgs(2..Len(chain))) :
              InArgs(ChainArgs(2..Len(chain))[i], LastBody.load_parents[1].args)

\* What the code passes when the table itself contributes a column: the
\* arguments of the columns of the last ancestor only, followed by the four
\* status parameters.
C24_ParentCallPassesLastAncestorColumns ==
    (lpc = "done" /\ Len(chain) >= 2 /\ ChainArgs({1}) # <<>>) =>
        /\ Len(LastBody.load_parents) = 1
        /\ LastBody.load_parents[1].call = "P_LOAD_" \o Upper(chain[2].name)
        /\ LastBody.load_parents[1].args =
              ChainArgs({Len(chain)}) \o ParamNames(paramsAdd)

(***************************************************************************)
(* The two phases of the run (schema_generator.py main,                    *)
(* generateHistoryTables).                                                 *)
(***************************************************************************)
\* processTable has started for some table.
RenderingBegun == taken > 0

RegistryKeys == {tables[i].key : i \in 1..Len(tables)}

\* Every input row is a column of its table in the registry.
EveryRowLoaded ==
    \A r \in 1..Len(todo) :
        LET k == KeyIndex(tables, SchemaTable(todo[r].schema, todo[r].table))
        IN  /\ k # 0
            /\ \E c \in 1..Len(tables[k].table.columns) :
                  tables[k].table.columns[c].field = Upper(todo[r].field)

\* The history table of every history-flagged table is in the registry.
EveryHistoryTableAdded ==
    \A i \in 1..Len(tables) :
        tables[i].table.needshistory =>
            /\ KeyIndex(tables, HistoryKey(tables[i].table)) # 0
            /\ tables[KeyIndex(tables, HistoryKey(tables[i].table))].table.ishistory

\* C25: the run has two ordered phases: no table's rendering starts before
\* every input row has been loaded into the registry and the history table
\* of every history-flagged table has been added to it, and the registry
\* gains no table after rendering has begun.
C25_RegistryCompleteBeforeRendering ==
    /\ [](RenderingBegun => (EveryRowLoaded /\ EveryHistoryTableAdded))
    /\ [][(RenderingBegun \/ mpc = "pool") =>
             [i \in 1..Len(tables') |-> tables'[i].key]
                = [i \in 1..Len(tables) |-> tables[i].key]]_vars

\* C25 witness: rendering has begun in a run of two rows whose registry
\* holds a history table.
C25_Witness ==
    /\ RenderingBegun
    /\ Len(todo) = 2
    /\ \E i \in 1..Len(tables) : tables[i].table.ishistory
    /\ \E i \in 1..Len(tables) : tables[i].table.needshistory

(***************************************************************************)
(* SpecChain: a run of main over rows that flag tables for the loader      *)
(* package and name loader parents.  A registry entry carries, next to the *)
(* table, the two loader attributes of the Table object: needsloader and   *)
(* loaderParent (the parent Table object, held here as its registry key    *)
(* and resolved against the registry at every read: the object is shared). *)
(* History tables carry neither.                                           *)
(***************************************************************************)
MaxChainRows == 3   \* input rows of one run of SpecChain

ChainRow(table, audit, history, ldr, parent) ==
    [RunRow(table, audit, history, "Y", <<>>) EXCEPT !.loader_parent_table = parent]
      @@ [loader_package |-> ldr]

ChainRowPool ==
    { ChainRow("T1", "Y", "", "Y", ""),
      ChainRow("T1", "", "", "", "T2"),
      ChainRow("T2", "", "", "Y", "T1"),
      ChainRow("T2", "Y", "Y", "", ""),
      ChainRow("T3", "", "", "Y", "T2") }

\* table.needsloader of a registry entry
NeedsLoader(e) == "needsloader" \in DOMAIN e /\ e.needsloader

\* table.loaderParent of a registry entry: a registry key, or None
LoaderParent(e) == IF "parent" \in DOMAIN e THEN e.parent ELSE None

InitChain ==
    /\ \E n \in 1..MaxChainRows : \E rows \in [1..n -> ChainRowPool] :
          todo = [i \in 1..n |-> [rows[i] EXCEPT !.field = FieldNames[i]]]
    /\ usePackage = FALSE
    /\ poolSize \in ThreadCounts
    /\ tables = <<>> /\ holdTables = <<>> /\ mainCount = 1
    /\ mpc = "load" /\ nextRow = 1
    /\ wpc = <<>> /\ wlocal = <<>> /\ taken = 0
    /\ histPkg = [map |-> <<>>, objs |-> <<>>] /\ generated = {}
    /\ IdleTable /\ IdleLoader /\ IdleClean /\ IdleRead /\ IdleGrant /\ IdleFlush

\* The row loop reading loader_parent_table without the registry lookup:
\* the parent is kept by name, whether or not that table exists yet.
LoadChainRowUnchecked ==
    /\ mpc = "load"
    /\ nextRow <= Len(todo)
    /\ \E row \in {todo[nextRow]} :
       \E k \in {KeyIndex(tables, SchemaTable(row.schema, row.table))} :
          IF k # 0
          THEN /\ tables' = [tables EXCEPT ![k].table = addColumn(@, load(row))]
               /\ UNCHANGED <<mainCount, mpc>>
          ELSE /\ tables' = Append(tables,
                    [key |-> SchemaTable(row.schema, row.table),
                     table |-> addColumn(Table(row.schema, row.table,
                                               row.gen_audit_columns,
                                               row.gen_history_tables,
                                               row.table_comment, mainCount,
                                               FALSE, ""),
                                         load(row)),
                     needsloader |-> Upper(row.loader_package) = "Y",
                     parent |-> IF row.loader_parent_table # ""
                                THEN SchemaTable(row.schema, row.loader_parent_table)
                                ELSE None])
               /\ mainCount' = mainCount + 1
               /\ UNCHANGED mpc
    /\ nextRow' = nextRow + 1
    /\ UNCHANGED <<todo, holdTables, usePackage, poolSize, wpc, wlocal, taken,
                   histPkg, generated>>
    /\ UNCHANGED <<tableVars, loaderVars, cleanVars, readVars, grantVars, flushVars>>

\* One iteration of "for row in todo" with the loader columns of the row:
\* for a new table with a loader_parent_table,
\* loaderParent = tables[f'{schema}.{loader_parent_table}'] is a KeyError
\* when that table has not been created yet, and main ends there.
LoadChainRow ==
    /\ mpc = "load"
    /\ nextRow <= Len(todo)
    /\ \E row \in {todo[nextRow]} :
       \E k \in {KeyIndex(tables, SchemaTable(row.schema, row.table))} :
          IF k # 0
          THEN /\ tables' = [tables EXCEPT ![k].table = addColumn(@, load(row))]
               /\ UNCHANGED <<mainCount, mpc>>
          ELSE IF /\ row.loader_parent_table # ""
                  /\ KeyIndex(tables, SchemaTable(row.schema,
                                                  row.loader_parent_table)) = 0
          THEN /\ mpc' = "crashed"
               /\ UNCHANGED <<tables, mainCount>>
          ELSE /\ tables' = Append(tables,
                    [key |-> SchemaTable(row.schema, row.table),
                     table |-> addColumn(Table(row.schema, row.table,
                                               row.gen_audit_columns,
                                               row.gen_history_tables,
                                               row.table_comment, mainCount,
                                               FALSE, ""),
                                         load(row)),
                     needsloader |-> Upper(row.loader_package) = "Y",
                     parent |-> IF row.loader_parent_table # ""
                                THEN SchemaTable(row.schema, row.loader_parent_table)
                                ELSE None])
               /\ mainCount' = mainCount + 1
               /\ UNCHANGED mpc
    /\ nextRow' = nextRow + 1
    /\ UNCHANGED <<todo, holdTables, usePackage, poolSize, wpc, wlocal, taken,
                   histPkg, generated>>
    /\ UNCHANGED <<tableVars, loaderVars, cleanVars, readVars, grantVars, flushVars>>

\* The walk "while localtable.loaderParent != None" from the entry at i: the
\* registry positions visited, the table first.  n bounds the walk by the
\* size of the registry; a walk that is cut short has not reached an entry
\* without parent.
RECURSIVE WalkParents(_, _, _)
WalkParents(reg, i, n) ==
    IF n = 0 \/ i = 0 THEN <<>>
    ELSE <<i>> \o (IF LoaderParent(reg[i]) = None THEN <<>>
                   ELSE WalkParents(reg, KeyIndex(reg, LoaderParent(reg[i])), n - 1))

\* tables = [table, table.loaderParent, ...] as the registry holds them now
ParentChain(reg, i) ==
    [k \in 1..Len(WalkParents(reg, i, Len(reg))) |->
        reg[WalkParents(reg, i, Len(reg))[k]].table]

\* A pool thread takes the next task: processTable up to and including
\* table.cleanCompoundIndex().
ChainWorkerStart ==
    /\ mpc = "pool"
    /\ taken < Len(wpc)
    /\ Cardinality(Running) < poolSize
    /\ \E r \in {cleanCompoundIndex(tables[taken + 1].table)} :
          /\ tables' = [tables EXCEPT ![taken + 1].table = r.table]
          /\ wpc' = [wpc EXCEPT ![taken + 1] = IF r.raised THEN "failed" ELSE "loader"]
    /\ taken' = taken + 1
    /\ UNCHANGED <<todo, holdTables, mainCount, mpc, nextRow, usePackage, poolSize,
                   wlocal, histPkg, generated>>
    /\ UNCHANGED <<tableVars, loaderVars, cleanVars, readVars, grantVars, flushVars>>

\* "if table.needsloader": the parent walk and sql.addToLoaderPackage, which
\* reads the column lists of the table and of every ancestor.
ChainWorkerLoader(i) ==
    /\ mpc = "pool" /\ wpc[i] = "loader"
    /\ IF NeedsLoader(tables[i])
       THEN \E r \in {addToLoaderPackage(loader, tables[i].table.schema,
                                         ParentChain(tables, i))} :
               /\ loader' = r.acc
               /\ wpc' = [wpc EXCEPT ![i] = IF r.raised THEN "failed" ELSE "rest"]
       ELSE /\ wpc' = [wpc EXCEPT ![i] = "rest"]
            /\ UNCHANGED loader
    /\ UNCHANGED <<chain, lpc, lpkg>>
    /\ UNCHANGED <<todo, tables, holdTables, mainCount, mpc, nextRow, usePackage,
                   poolSize, wlocal, taken, histPkg, generated>>
    /\ UNCHANGED <<tableVars, cleanVars, readVars, grantVars, flushVars>>

\* The rest of processTable: the history triggers, the audit columns and
\* audit trigger, the key, index and table scripts and the column loop.
ChainWorkerRest(i) ==
    /\ mpc = "pool" /\ wpc[i] = "rest"
    /\ \E r \in {processTable(tables[i].table)} :
          tables' = [tables EXCEPT ![i].table = r.table]
    /\ wpc' = [wpc EXCEPT ![i] = "done"]
    /\ UNCHANGED <<todo, holdTables, mainCount, mpc, nextRow, usePackage, poolSize,
                   wlocal, taken, histPkg, generated>>
    /\ UNCHANGED <<tableVars, loaderVars, cleanVars, readVars, grantVars, flushVars>>

NextChain ==
    \/ LoadChainRow
    \/ SnapshotTables
    \/ GenerateHistoryTables
    \/ StartPool
    \/ ChainWorkerStart
    \/ \E i \in 1..Len(wpc) : ChainWorkerLoader(i)
    \/ \E i \in 1..Len(wpc) : ChainWorkerRest(i)
    \/ JoinPool

SpecChain == InitChain /\ [][NextChain]_vars

\* The ancestors of the entry at i: the positions of its parent walk but i.
Ancestors(i) ==
    {WalkParents(tables, i, Len(tables))[k] :
        k \in 2..Len(WalkParents(tables, i, Len(tables)))}

\* The header of the load procedure generated for the table at i.
LoadHeaders(i) ==
    IF tables[i].table.schema \notin DOMAIN loader THEN <<>>
    ELSE SelectSeq(loader[tables[i].table.schema].header,
                   LAMBDA h : h.proc_name = "P_LOAD_" \o tables[i].table.name)

HasAuditParam(h) == \E k \in 1..Len(h.params) : h.params[k].name = "p_in_u_name"

\* The worker of the table at i is about to read the column list of its
\* ancestor at j for the load procedure while the worker of j is inside
\* processTable before its genAuditColumns call.
ReadsWhileOwnerMutates(i, j) ==
    /\ wpc[i] = "loader" /\ NeedsLoader(tables[i])
    /\ j \in Ancestors(i)
    /\ wpc[j] \in {"loader", "rest"} /\ tables[j].table.needsaudit

\* C26: during the parallel rendering phase a table's column list and
\* counters are read and written only by the worker that owns the table: no
\* worker reads the column list of another table while that table's own
\* worker may be mutating it (injecting audit columns), so a child's load
\* procedure does not depend on the interleaving with its parent's worker:
\* it is the procedure of a one-thread run, which sees the audit columns of
\* every audit-flagged ancestor.
C26_OnlyOwnerTouchesColumns ==
    \A i \in 1..Len(wpc) :
        /\ \A j \in 1..Len(wpc) : ~ReadsWhileOwnerMutates(i, j)
        /\ (wpc[i] \in {"rest", "done"} /\ NeedsLoader(tables[i])) =>
              \A j \in Ancestors(i) :
                  tables[j].table.needsaudit =>
                      \A k \in 1..Len(LoadHeaders(i)) : HasAuditParam(LoadHeaders(i)[k])

\* The two outcomes of one input: the load procedure of a child of an
\* audit-flagged parent with the parent's audit columns ...
ChildSeesParentAudit ==
    /\ mpc = "done" /\ poolSize = 3
    /\ Len(todo) = 2 /\ todo[1].table = "T1" /\ todo[2].table = "T2"
    /\ todo[1].gen_audit_columns = "Y" /\ todo[2].loader_parent_table = "T1"
    /\ Len(LoadHeaders(2)) = 1 /\ HasAuditParam(LoadHeaders(2)[1])

\* ... and without them.
ChildMissesParentAudit ==
    /\ mpc = "done" /\ poolSize = 3
    /\ Len(todo) = 2 /\ todo[1].table = "T1" /\ todo[2].table = "T2"
    /\ todo[1].gen_audit_columns = "Y" /\ todo[2].loader_parent_table = "T1"
    /\ Len(LoadHeaders(2)) = 1 /\ ~HasAuditParam(LoadHeaders(2)[1])

\* With one pool thread the tables are rendered one after the other in
\* registry order and the claim's two parts hold.
C26_OwnershipInOneThreadRun ==
    poolSize = 1 => C26_OnlyOwnerTouchesColumns

(***************************************************************************)
(* Loader parents in the registry (schema_generator.py main, processTable).*)
(***************************************************************************)
\* C28: for every registry the loader can build, a table's loader parent is
\* a table that was created strictly earlier, so parent references are
\* acyclic and the parent walk of processTable terminates, listing the
\* table first and then each ancestor exactly once.
C28_ParentCreatedEarlier ==
    \A i \in 1..Len(tables) :
        /\ LoaderParent(tables[i]) # None =>
              /\ KeyIndex(tables, LoaderParent(tables[i])) \in 1..(i - 1)
              /\ tables[KeyIndex(tables, LoaderParent(tables[i]))].table.tableNumber
                    < tables[i].table.tableNumber
        /\ \E w \in {WalkParents(tables, i, Len(tables))} :
              /\ Len(w) >= 1 /\ w[1] = i
              /\ \A a, b \in 1..Len(w) : a < b => w[a] > w[b]
              /\ w[Len(w)] \in 1..Len(tables)
              /\ LoaderParent(tables[w[Len(w)]]) = None

\* C28 witness: the worker of a table with a parent and a grandparent has
\* walked its chain of three tables and generated the load procedure.
C28_Witness ==
    \E i \in 1..Len(wpc) :
        /\ wpc[i] \in {"rest", "done"}
        /\ NeedsLoader(tables[i])
        /\ Len(WalkParents(tables, i, Len(tables))) = 3
        /\ Len(LoadHeaders(i)) = 1

(***************************************************************************)
(* Table-sequence-numbers in the registry (schema_generator.py main,       *)
(* generateHistoryTables; table.py genHistoryTable).                       *)
(***************************************************************************)
TableNumbers(reg) == {reg[i].table.tableNumber : i \in 1..Len(reg)}

\* C27: after the registry is fully materialized every table, original or
\* history, carries a table-sequence-number different from every other
\* table's; numbers are assigned in strictly increasing order of first
\* appearance, and every history table's number is greater than every
\* original table's number.
C27_TableNumbersDistinctAndIncreasing ==
    /\ [](/\ \A i, j \in 1..Len(tables) :
                i # j => tables[i].table.tableNumber # tables[j].table.tableNumber
          /\ \A i, j \in 1..Len(tables) :
                (tables[i].table.ishistory /\ ~tables[j].table.ishistory) =>
                    tables[i].table.tableNumber > tables[j].table.tableNumber)
    /\ [][\A n \in TableNumbers(tables') \ TableNumbers(tables) :
             \A m \in TableNumbers(tables) : n > m]_vars

\* C27 witness: a materialized registry of two original tables and the
\* history table of each.
C27_Witness ==
    /\ mpc \in {"pool", "done"}
    /\ Len(tables) = 4
    /\ ~tables[1].table.ishistory /\ ~tables[2].table.ishistory
    /\ tables[3].table.ishistory /\ tables[4].table.ishistory

(***************************************************************************)
(* Tables left without artifacts at the end of the run                     *)
(* (schema_generator.py processTable, main).                               *)
(***************************************************************************)
\* The tables whose task ended in an exception inside processTable.
FailedTables == {i \in 1..Len(wpc) : wpc[i] = "failed"}

\* C29: every table in the registry, original or history, has its CREATE
\* TABLE artifact emitted before the run ends, under every worker
\* interleaving; a failure raised while rendering one table is surfaced to
\* the run (the run does not go on to its end as if nothing had happened)
\* rather than silently leaving that table without artifacts.
C29_EveryTableCreatedBeforeRunEnds ==
    mpc = "done" =>
        /\ Len(wpc) = Len(tables)
        /\ \A i \in 1..Len(tables) : wpc[i] = "done"

\* What does hold: the pool is left only when every task has ended, and
\* every task that did not raise has rendered its table.
C29_EveryTaskEndedBeforeRunEnds ==
    mpc = "done" =>
        /\ Len(wpc) = Len(tables)
        /\ \A i \in 1..Len(tables) : wpc[i] \in {"done", "failed"}

(***************************************************************************)
(* The type recorded with a capture of the CREATE scanner                  *)
(* (clean_script.py parseSqlCreates, clean_order).                         *)
(***************************************************************************)
\* The word loop of a scanner that forgets the type at every CREATE: its
\* captures carry the type keyword seen between the statement's CREATE and
\* the name, or '' when there was none.
RECURSIVE ScanWordsPerStatement(_, _, _)
ScanWordsPerStatement(st, words, i) ==
    IF i > Len(words) THEN st
    ELSE ScanWordsPerStatement(
             ScanWord(IF words[i] = "CREATE" THEN [st EXCEPT !.createType = ""]
                      ELSE st,
                      words[i]),
             words, i + 1)

PerStatementScan ==
    ScanWordsPerStatement([isCreate |-> FALSE, createType |-> "",
                           createStatements |-> <<>>],
                          Split(formatForParsing(script)), 1)

\* C30: every capture recorded by the CREATE scanner pairs the object name
\* with an object-type keyword that was seen between that statement's CREATE
\* token and the name: the recorded type is never empty and never carried
\* over from an earlier CREATE statement, so every capture maps to an entry
\* of the type-to-drop-keyword table.
C30_CaptureTypeFromOwnStatement ==
    cpc \in {"creates parsed", "creates failed"} =>
        /\ CreateScan.createStatements = PerStatementScan.createStatements
        /\ \A k \in 1..Len(CreateScan.createStatements) :
              /\ CreateScan.createStatements[k][1] # ""
              /\ CreateScan.createStatements[k][1] \in DOMAIN type_to_dir
              /\ type_to_dir[CreateScan.createStatements[k][1]] \in DOMAIN clean_order
        /\ cpc = "creates parsed"

\* A capture whose type comes from an earlier statement: every recorded
\* type is a keyword, and the second capture's own statement holds none.
CarriedOverType ==
    /\ cpc = "creates parsed"
    /\ Len(CreateScan.createStatements) = 2
    /\ CreateScan.createStatements[2][1] = "TABLE"
    /\ PerStatementScan.createStatements[2][1] = ""

\* What does hold: the recorded type is the last type keyword seen inside
\* any CREATE statement of the file so far, or '' when there was none yet.
C30_CaptureTypeIsLastSeen ==
    cpc \in {"creates parsed", "creates failed"} =>
        \A k \in 1..Len(CreateScan.createStatements) :
            /\ CreateScan.createStatements[k][1] \in {"", "TABLE", "CONSTRAINT"}
            /\ CreateScan.createStatements[k][1] = "" =>
                  /\ cpc = "creates failed"
                  /\ \A j \in 1..k : PerStatementScan.createStatements[j][1] = ""
====
